---- MODULE Spec2Model ----
(***************************************************************************)
(* The window manager of the portfolio page (WindowManager and Window),    *)
(* as a state machine.  One action per event handler or timer callback.    *)
(*                                                                         *)
(* Window objects are numbered in construction order: win[i] is the i-th   *)
(* Window ever constructed.  A Window object stays in win after its        *)
(* element has left the document, because its document-level mousemove and *)
(* mouseup listeners are never removed.                                    *)
(*                                                                         *)
(* Geometry: the containing block of the windows is the viewport, with its *)
(* origin at the viewport's origin, so that style.left in px equals        *)
(* getBoundingClientRect().left.  Lengths are CSS pixels.                  *)
(***************************************************************************)
EXTENDS Integers, Sequences, FiniteSets, TLC

(***************************************************************************)
(* CONFIG                                                                  *)
(***************************************************************************)
SNAP_THRESHOLD == 50
Z_INDEX_BASE == 10
LEFT_SNAP_POSITION == 16
RIGHT_SNAP_OFFSET == 8
TOP_POSITION == 16
WINDOW_WIDTH_INSET == 24
SNAP_HEIGHT_INSET == 32
MAX_CENTERED_WIDTH == 1024
MOBILE_BREAKPOINT == 768
INITIAL_LINK_WIDTH == 400
LINK_PADDING == 20
LINK_GAP == 10
OFFSET_AMOUNT == 50
SCREEN_PADDING == 16

LEFT == "left"
RIGHT == "right"
NoZone == "null"
NoWindow == 0
SnapZone == {LEFT, RIGHT}

(***************************************************************************)
(* Bounds of the model                                                     *)
(***************************************************************************)
MaxWindows == 3
MaxZ == 4
MaxFadeTimers == 2
LiveMaxWindows == 2
MaxSettleTimers == 2
MaxCount == 20
MaxRenders == 2
MaxInitTimers == 1

(***************************************************************************)
(* Inputs: viewport sizes, content-driven window sizes, pointer positions, *)
(* the template ids present in the document.                               *)
(***************************************************************************)
ViewportWidths == {600, 1000}
ViewportHeights == {800}
Pointers ==
  {[x |-> 30, y |-> 30], [x |-> 300, y |-> 900], [x |-> 900, y |-> 30]}
LinkRects == {[left |-> 100, top |-> 200, bottom |-> 220]}

MainTemplate == "main-window-template"
ActivityTemplate == "activity-window-template"
ProjectsTemplate == "projects-window-template"
RLPostTemplate == "reinforcement-learning-post-template"
DronePostTemplate == "drone-development-post-template"
DebugTemplate == "debug-window-template"
AllTemplates ==
  {MainTemplate, ActivityTemplate, ProjectsTemplate, RLPostTemplate,
   DronePostTemplate, DebugTemplate}
TemplateSets == {AllTemplates \ {ProjectsTemplate}}
\* the content-driven size of a clone of each template
contentSize(templateId) ==
  IF templateId = MainTemplate THEN [w |-> 400, h |-> 900] ELSE [w |-> 400, h |-> 300]

PostUrls ==
  {"posts/reinforcement-learning-scoundrel.html", "posts/drone-development.html",
   "posts/other.html"}

VARIABLES
  windows,        \* WindowManager.windows: the registry, ids in insertion order
  snapZones,      \* WindowManager.snapZones: owner of each slot, or NoWindow
  nextZIndex,     \* WindowManager.nextZIndex
  win,            \* the Window objects constructed so far
  innerWidth,     \* window.innerWidth
  innerHeight,    \* window.innerHeight
  templates,      \* ids of the <template> elements of the document
  restartButton,  \* whether #restart-button is in the document
  showCalls,      \* showRestartButton calls made by the latest handler
  loadResult,     \* what loadWindowFromTemplate returned in the latest handler
  templateStoreInstance,  \* the template store's variable: its debug panel, or NoWindow
  contributionData,  \* window.contributionData: year -> daily counts
  timePeriods,    \* TIME_PERIODS
  graphsContainer,   \* the children of #contribution-graphs, or NoContainer
  heat,           \* the latest call of a function of the contribution graph
  store           \* the template store: pending initializeTemplateStore timers, latest call

heatVars == <<contributionData, timePeriods, graphsContainer, heat>>

winVars ==
  <<windows, snapZones, nextZIndex, win, innerWidth, innerHeight, templates,
    restartButton, showCalls, loadResult, templateStoreInstance>>

storeVars == <<store>>

vars == <<winVars, heatVars, storeVars>>

\* loadResult: <<>> when the handler made no load, else <<w>>, w = NoWindow for null
NoLoad == <<>>
Returned(w) == <<w>>

(***************************************************************************)
(* The handlers are written as functions from program state to program     *)
(* state, so that a handler that calls several methods is their            *)
(* composition.  Cur is the current state as a record.                     *)
(***************************************************************************)
Cur ==
  [windows |-> windows, snapZones |-> snapZones, nextZIndex |-> nextZIndex,
   win |-> win, innerWidth |-> innerWidth, innerHeight |-> innerHeight,
   templates |-> templates, restartButton |-> restartButton,
   showCalls |-> 0, loadResult |-> NoLoad,
   templateStoreInstance |-> templateStoreInstance]

\* the window manager's variables after a handler
CommitWindows(S) ==
  /\ windows' = S.windows
  /\ snapZones' = S.snapZones
  /\ nextZIndex' = S.nextZIndex
  /\ win' = S.win
  /\ innerWidth' = S.innerWidth
  /\ innerHeight' = S.innerHeight
  /\ templates' = S.templates
  /\ restartButton' = S.restartButton
  /\ showCalls' = S.showCalls
  /\ loadResult' = S.loadResult
  /\ templateStoreInstance' = S.templateStoreInstance

\* S without the transition style of its elements and their settle timers
WithoutTransitions(S) ==
  [S EXCEPT !.win = [w \in DOMAIN S.win |->
                       [S.win[w] EXCEPT !.transition = "", !.settleTimers = 0]]]

\* the window manager after a handler.  No code of the page reads
\* style.transition, so that the window manager is observed without it.
Commit(S) == CommitWindows(WithoutTransitions(S)) /\ UNCHANGED <<heatVars, storeVars>>

\* the window manager after a handler, with the transition style
CommitTransitions(S) == CommitWindows(S) /\ UNCHANGED <<heatVars, storeVars>>

Max(a, b) == IF a >= b THEN a ELSE b
Min(a, b) == IF a <= b THEN a ELSE b

Px(n) == [unit |-> "px", v |-> n]
Percent(n) == [unit |-> "%", v |-> n]
HalfPlus(n) == [unit |-> "calc(50% + px)", v |-> n]

isMobile(S) == S.innerWidth <= MOBILE_BREAKPOINT

(***************************************************************************)
(* The contribution graph (github-activity.js).                            *)
(*                                                                         *)
(* A Date at local midnight is the number of days since 1 January of year  *)
(* 1 in the Gregorian calendar; new Date(year, month, day) normalises a    *)
(* day beyond the end of the month by carrying, which day arithmetic does. *)
(***************************************************************************)
isGregorianLeap(year) ==
  (year % 4 = 0 /\ year % 100 # 0) \/ year % 400 = 0

daysBefore(year) ==
  365 * (year - 1) + ((year - 1) \div 4) - ((year - 1) \div 100) + ((year - 1) \div 400)

\* days of the year before the first of the month, month 0 = January
monthStart(year, month) ==
  <<0, 31, 59, 90, 120, 151, 181, 212, 243, 273, 304, 334>>[month + 1]
    + (IF isGregorianLeap(year) /\ month >= 2 THEN 1 ELSE 0)

Date(year, month, day) == daysBefore(year) + monthStart(year, month) + day - 1

\* Date.prototype.getDay: 0 = Sunday; 1 January of year 1 is a Monday
getDay(date) == (date + 1) % 7

TIME_PERIODS ==
  << [label |-> "Amazon Robotics", start |-> Date(2024, 0, 6),
      end |-> Date(2024, 6, 12), color |-> "#FF9900"],
     [label |-> "Loandock", start |-> Date(2024, 6, 18),
      end |-> Date(2025, 11, 31), color |-> "#2759CB"],
     [label |-> "TBD Aerospace", start |-> Date(2022, 7, 1),
      end |-> Date(2023, 11, 31), color |-> "#C7363C"] >>

NoPeriod == 0

\* TIME_PERIODS.find(period => date >= period.start && date <= period.end):
\* the index of the first period that holds the date, or NoPeriod
getTimePeriodForDate(periods, date) ==
  LET hits == {i \in 1..Len(periods) : date >= periods[i].start /\ date <= periods[i].end}
  IN  IF hits = {} THEN NoPeriod ELSE CHOOSE i \in hits : \A j \in hits : i <= j

getContributionLevel_Strict(count) ==
  IF count = 0 THEN 0
  ELSE IF count < 3 THEN 1
  ELSE IF count < 6 THEN 2
  ELSE IF count < 12 THEN 3
  ELSE 4

getContributionLevel(count) ==
  IF count = 0 THEN 0
  ELSE IF count <= 3 THEN 1
  ELSE IF count <= 6 THEN 2
  ELSE IF count <= 12 THEN 3
  ELSE 4

\* daysInYear of getYearContributionData
daysInYearOfData_Julian(year) == IF year % 4 = 0 THEN 366 ELSE 365

daysInYearOfData(year) ==
  LET isLeapYear == (year % 4 = 0 /\ year % 100 # 0) \/ (year % 400 = 0)
  IN  IF isLeapYear THEN 366 ELSE 365

\* daysInYear of createRegionBorder
daysInYearOfBorder(year) ==
  LET isLeapYear == (year % 4 = 0 /\ year % 100 # 0) \/ (year % 400 = 0)
  IN  IF isLeapYear THEN 366 ELSE 365

getYearContributionData(year, data) ==
  IF year \in DOMAIN data
  THEN data[year]
  ELSE [i \in 1..daysInYearOfData(year) |-> 0]

\* the grid of a year: 53 columns of weeks, 7 rows of days of the week
WEEKS == 53
DAYS_PER_WEEK == 7

getGridPosition(dayIndex, startDayOfWeek) ==
  [week |-> (dayIndex + startDayOfWeek) \div 7,
   dayOfWeek |-> (dayIndex + startDayOfWeek) % 7]

isValidDay(dayIndex, contributions) ==
  dayIndex >= 0 /\ dayIndex < Len(contributions)

getNeighbors_WeeksOnly(dayIndex, startDayOfWeek, contributions) ==
  LET pos == getGridPosition(dayIndex, startDayOfWeek)
      candidate(dw) ==
        LET newWeek == pos.week + dw
            newDayIndex == newWeek * 7 + pos.dayOfWeek - startDayOfWeek
        IN  IF newWeek >= 0 /\ newWeek < WEEKS /\ isValidDay(newDayIndex, contributions)
            THEN <<newDayIndex>> ELSE <<>>
  IN  candidate(-1) \o candidate(1)

\* the neighbours of a day in the order up, down, left, right of the code
getNeighbors(dayIndex, startDayOfWeek, contributions) ==
  LET pos == getGridPosition(dayIndex, startDayOfWeek)
      directions == << <<-1, 0>>, <<1, 0>>, <<0, -1>>, <<0, 1>> >>
      candidate(k) ==
        LET newWeek == pos.week + directions[k][1]
            newDayOfWeek == pos.dayOfWeek + directions[k][2]
            newDayIndex == newWeek * 7 + newDayOfWeek - startDayOfWeek
        IN  IF /\ newWeek >= 0 /\ newWeek < WEEKS
               /\ newDayOfWeek >= 0 /\ newDayOfWeek < DAYS_PER_WEEK
               /\ isValidDay(newDayIndex, contributions)
            THEN <<newDayIndex>> ELSE <<>>
  IN  candidate(1) \o candidate(2) \o candidate(3) \o candidate(4)

\* the days of seq in order, each kept at its first occurrence
firstOccurrences(seq) ==
  LET keep == {j \in 1..Len(seq) : \A i \in 1..(j - 1) : seq[i] # seq[j]}
      nth(k) == CHOOSE j \in keep : Cardinality({i \in keep : i <= j}) = k
  IN  [k \in 1..Cardinality(keep) |-> seq[nth(k)]]

\* what the days queue[from..] push when they are shifted one after the other
RECURSIVE pushedBy(_, _, _, _, _, _, _)
pushedBy(year, contributions, periods, label, queue, from, visited) ==
  IF from > Len(queue) THEN <<>>
  ELSE LET startDayOfWeek == getDay(Date(year, 0, 1))
           samePeriod(neighbor) ==
             LET neighborPeriod == getTimePeriodForDate(periods, Date(year, 0, neighbor + 1))
             IN  /\ neighbor \notin visited
                 /\ neighborPeriod # NoPeriod
                 /\ periods[neighborPeriod].label = label
       IN  SelectSeq(getNeighbors(queue[from], startDayOfWeek, contributions), samePeriod)
             \o pushedBy(year, contributions, periods, label, queue, from + 1, visited)

\* the while loop of findConnectedRegions: the flood fill from the queue.
\* The loop shifts one day at a time; here the days that are in the queue
\* together are shifted in one step, in their order, which visits the days in
\* the same order: a day is pushed by the first shifted day that reaches it.
RECURSIVE floodFill(_, _, _, _, _, _, _)
floodFill(year, contributions, periods, label, queue, visited, region) ==
  IF queue = <<>>
  THEN [region |-> region, visited |-> visited]
  ELSE LET added == firstOccurrences(
                      pushedBy(year, contributions, periods, label, queue, 1, visited))
       IN  floodFill(year, contributions, periods, label, added,
                     visited \cup {added[i] : i \in 1..Len(added)},
                     region \o queue)

\* the for loop of findConnectedRegions, from dayIndex on: the iterations
\* that continue (day visited, or in no period) are skipped in one step
RECURSIVE findConnectedRegionsFrom(_, _, _, _, _, _)
findConnectedRegionsFrom(year, contributions, periods, dayIndex, visited, regions) ==
  LET seeds == {d \in dayIndex..(Len(contributions) - 1) :
                  /\ d \notin visited
                  /\ getTimePeriodForDate(periods, Date(year, 0, d + 1)) # NoPeriod}
  IN  IF seeds = {}
      THEN regions
      ELSE LET seed == CHOOSE d \in seeds : \A e \in seeds : d <= e
               currentPeriod == getTimePeriodForDate(periods, Date(year, 0, seed + 1))
               fill == floodFill(year, contributions, periods,
                                 periods[currentPeriod].label, <<seed>>,
                                 visited \cup {seed}, <<>>)
           IN  findConnectedRegionsFrom(year, contributions, periods, seed + 1,
                                        fill.visited, Append(regions, fill.region))

findConnectedRegions(year, contributions, periods) ==
  findConnectedRegionsFrom(year, contributions, periods, 0, {}, <<>>)

createRegionBorder_GridOnly(year, region, periods) ==
  LET startDayOfWeek == getDay(Date(year, 0, 1))
      regionSet == {region[i] : i \in 1..Len(region)}
      directions ==
        << [name |-> "top", dx |-> 0, dy |-> -1], [name |-> "right", dx |-> 1, dy |-> 0],
           [name |-> "bottom", dx |-> 0, dy |-> 1], [name |-> "left", dx |-> -1, dy |-> 0] >>
      edge(j) ==
        LET dayIndex == region[((j - 1) \div 4) + 1]
            dir == directions[((j - 1) % 4) + 1]
            week == (dayIndex + startDayOfWeek) \div 7
            dayOfWeek == (dayIndex + startDayOfWeek) % 7
            neighborWeek == week + dir.dx
            neighborDayOfWeek == dayOfWeek + dir.dy
            neighborDayIndex == neighborWeek * 7 + neighborDayOfWeek - startDayOfWeek
            hasNeighbor ==
              /\ neighborWeek >= 0 /\ neighborWeek < WEEKS
              /\ neighborDayOfWeek >= 0 /\ neighborDayOfWeek < DAYS_PER_WEEK
              /\ neighborDayIndex >= 0 /\ neighborDayIndex < daysInYearOfBorder(year)
        IN  [week |-> week, dayOfWeek |-> dayOfWeek, edge |-> dir.name,
             hasNeighbor |-> hasNeighbor]
      edges == [j \in 1..(4 * Len(region)) |-> edge(j)]
      open == SelectSeq(edges, LAMBDA e : ~e.hasNeighbor)
  IN  IF region = <<>> THEN <<>>
      ELSE LET period == getTimePeriodForDate(periods, Date(year, 0, region[1] + 1))
           IN  IF period = NoPeriod THEN <<>>
               ELSE [j \in 1..Len(open) |->
                       [week |-> open[j].week, dayOfWeek |-> open[j].dayOfWeek,
                        edge |-> open[j].edge, color |-> periods[period].color]]

\* createRegionBorder: the segments it appends to the background layer, in
\* the order of the region's days and, for each day, top, right, bottom, left.
\* createBorderSegment places a segment by week, dayOfWeek and edge.
createRegionBorder(year, region, periods) ==
  LET startDayOfWeek == getDay(Date(year, 0, 1))
      regionSet == {region[i] : i \in 1..Len(region)}
      directions ==
        << [name |-> "top", dx |-> 0, dy |-> -1], [name |-> "right", dx |-> 1, dy |-> 0],
           [name |-> "bottom", dx |-> 0, dy |-> 1], [name |-> "left", dx |-> -1, dy |-> 0] >>
      edge(j) ==
        LET dayIndex == region[((j - 1) \div 4) + 1]
            dir == directions[((j - 1) % 4) + 1]
            week == (dayIndex + startDayOfWeek) \div 7
            dayOfWeek == (dayIndex + startDayOfWeek) % 7
            neighborWeek == week + dir.dx
            neighborDayOfWeek == dayOfWeek + dir.dy
            neighborDayIndex == neighborWeek * 7 + neighborDayOfWeek - startDayOfWeek
            hasNeighbor ==
              /\ neighborWeek >= 0 /\ neighborWeek < WEEKS
              /\ neighborDayOfWeek >= 0 /\ neighborDayOfWeek < DAYS_PER_WEEK
              /\ neighborDayIndex >= 0 /\ neighborDayIndex < daysInYearOfBorder(year)
              /\ neighborDayIndex \in regionSet
        IN  [week |-> week, dayOfWeek |-> dayOfWeek, edge |-> dir.name,
             hasNeighbor |-> hasNeighbor]
      edges == [j \in 1..(4 * Len(region)) |-> edge(j)]
      open == SelectSeq(edges, LAMBDA e : ~e.hasNeighbor)
  IN  IF region = <<>> THEN <<>>
      ELSE LET period == getTimePeriodForDate(periods, Date(year, 0, region[1] + 1))
           IN  IF period = NoPeriod THEN <<>>
               ELSE [j \in 1..Len(open) |->
                       [week |-> open[j].week, dayOfWeek |-> open[j].dayOfWeek,
                        edge |-> open[j].edge, color |-> periods[period].color]]

\* the borders of all regions, in the order renderYearRow draws them
RECURSIVE regionBorders(_, _, _, _)
regionBorders(year, regions, periods, k) ==
  IF k > Len(regions) THEN <<>>
  ELSE createRegionBorder(year, regions[k], periods)
         \o regionBorders(year, regions, periods, k + 1)

\* the cell renderYearRow appends for a position of the grid; the title is
\* <<>> for 'No data', else the count and the date
dayElement(year, contributions, week, dayOfWeek) ==
  LET startDayOfWeek == getDay(Date(year, 0, 1))
      dayIndex == week * 7 + dayOfWeek - startDayOfWeek
      inData == dayIndex >= 0 /\ dayIndex < Len(contributions)
      contributionCount == IF inData THEN contributions[dayIndex + 1] ELSE 0
  IN  [level |-> getContributionLevel(contributionCount),
       title |-> IF inData THEN <<contributionCount, Date(year, 0, dayIndex + 1)>> ELSE <<>>]

\* renderYearRow: the container with the row of the year appended
renderYearRow(container, year, contributions, periods) ==
  LET regions == findConnectedRegions(year, contributions, periods)
      grid == [j \in 1..(DAYS_PER_WEEK * WEEKS) |->
                 dayElement(year, contributions, (j - 1) % WEEKS, (j - 1) \div WEEKS)]
  IN  Append(container,
             [year |-> year,
              backgroundLayer |-> regionBorders(year, regions, periods, 1),
              grid |-> grid])

\* the years initializeContributionGraphs renders, in its order
YEARS == <<2026, 2025, 2024, 2023, 2022, 2021, 2020>>

monthNames ==
  <<"Jan", "Feb", "Mar", "Apr", "May", "Jun", "Jul", "Aug", "Sep", "Oct", "Nov", "Dec">>

\* #contribution-graphs: absent from the window, or its children and the
\* ResizeObservers that observe it
NoContainer == [present |-> FALSE, children |-> <<>>, observers |-> 0]
EmptyContainer == [present |-> TRUE, children |-> <<>>, observers |-> 0]

appendChild(parent, child) == Append(parent, child)

\* years.forEach of initializeContributionGraphs, from the k-th year on
RECURSIVE renderYears(_, _, _, _)
renderYears(scaler, data, periods, k) ==
  IF k > Len(YEARS) THEN scaler
  ELSE renderYears(
         renderYearRow(scaler, YEARS[k], getYearContributionData(YEARS[k], data), periods),
         data, periods, k + 1)

initializeContributionGraphs_NoClear(G, data, periods) ==
  IF ~G.present
  THEN G
  ELSE LET legendContainer ==
             [className |-> "contribution-legend-container",
              items |-> [i \in 1..Len(periods) |->
                           [color |-> periods[i].color, label |-> periods[i].label]]]
           withLegend ==
             IF Len(periods) > 0 THEN appendChild(G.children, legendContainer)
             ELSE G.children
           scaler ==
             [className |-> "contribution-scaler",
              children |-> renderYears(<<[className |-> "contribution-months-row",
                                          months |-> monthNames]>>, data, periods, 1)]
       IN  [G EXCEPT !.children = appendChild(withLegend, scaler),
                     !.observers = G.observers + 1]

\* initializeContributionGraphs(windowElement), on the container of the
\* window.  updateScale only sets the scale transform and the height from the
\* layout width; it changes no child of the container.
initializeContributionGraphs(G, data, periods) ==
  IF ~G.present
  THEN G
  ELSE LET cleared == <<>>
           legendContainer ==
             [className |-> "contribution-legend-container",
              items |-> [i \in 1..Len(periods) |->
                           [color |-> periods[i].color, label |-> periods[i].label]]]
           withLegend ==
             IF Len(periods) > 0 THEN appendChild(cleared, legendContainer)
             ELSE cleared
           scaler ==
             [className |-> "contribution-scaler",
              children |-> renderYears(<<[className |-> "contribution-months-row",
                                          months |-> monthNames]>>, data, periods, 1)]
       IN  [G EXCEPT !.children = appendChild(withLegend, scaler),
                     !.observers = G.observers + 1]

\* heat when no function of the contribution graph has been called
NoCall == [op |-> "none", arg |-> 0, result |-> 0]

\* the window manager's page has no activity window, so no graphs container
HeatIdle ==
  /\ contributionData = <<>>
  /\ timePeriods = TIME_PERIODS
  /\ graphsContainer = NoContainer
  /\ heat = NoCall

\* no timer of the template store is pending and none has run
StoreIdle == store = [timers |-> 0, call |-> NoCall]

(***************************************************************************)
(* element.getBoundingClientRect(), from the inline style the code sets    *)
(* and the viewport.  An element that is not in the document has an        *)
(* all-zero rectangle.                                                     *)
(***************************************************************************)
rectWidth(S, w) ==
  LET e == S.win[w]
  IN  CASE e.width = "calc(50% - 24px)" -> (S.innerWidth \div 2) - WINDOW_WIDTH_INSET
        [] e.width = "100%" ->
             IF e.maxWidth = "1024px" THEN Min(S.innerWidth, MAX_CENTERED_WIDTH)
             ELSE S.innerWidth
        [] OTHER -> e.natural.w

rectHeight(S, w) ==
  LET e == S.win[w]
  IN  IF e.height = "calc(100vh - 32px)"
      THEN Max(0, S.innerHeight - SNAP_HEIGHT_INSET)
      ELSE e.natural.h

getBoundingClientRect(S, w) ==
  LET e == S.win[w]
      width == rectWidth(S, w)
      height == rectHeight(S, w)
      shift == IF e.transform = "translateX(-50%)" THEN width \div 2 ELSE 0
      left == CASE e.left.unit = "px" -> e.left.v - shift
                [] e.left.unit = "%" -> ((S.innerWidth * e.left.v) \div 100) - shift
                [] OTHER -> (S.innerWidth \div 2) + e.left.v - shift
  IN  IF e.inDocument
      THEN [left |-> left, top |-> e.top, width |-> width, height |-> height]
      ELSE [left |-> 0, top |-> 0, width |-> 0, height |-> 0]

(***************************************************************************)
(* WindowManager: the slot table and the stacking counter                  *)
(***************************************************************************)
isSnapZoneOccupied_Never(S, zone) == FALSE

isSnapZoneOccupied(S, zone) == S.snapZones[zone] # NoWindow

occupySnapZone(S, zone, w) == [S EXCEPT !.snapZones[zone] = w]

freeSnapZone(S, zone) == [S EXCEPT !.snapZones[zone] = NoWindow]

setZIndex_Every(S, w, z) ==
  [S EXCEPT !.win = [v \in DOMAIN S.win |-> [S.win[v] EXCEPT !.zIndex = z]]]

setZIndex(S, w, z) == [S EXCEPT !.win[w].zIndex = z]

bringToFront_NoIncrement(S, w) == setZIndex(S, w, S.nextZIndex)

bringToFront(S, w) ==
  [setZIndex(S, w, S.nextZIndex) EXCEPT !.nextZIndex = S.nextZIndex + 1]

(***************************************************************************)
(* Window                                                                  *)
(***************************************************************************)
clearSnapZone_KeepField(S, w) ==
  IF S.win[w].snapZone # NoZone THEN freeSnapZone(S, S.win[w].snapZone) ELSE S

clearSnapZone(S, w) ==
  IF S.win[w].snapZone # NoZone
  THEN [freeSnapZone(S, S.win[w].snapZone) EXCEPT !.win[w].snapZone = NoZone]
  ELSE S

SNAP_TRANSITION == "left, top, transform, height 0.3s ease"
FADE_TRANSITION == "opacity 0.6s ease"

\* snapToSide: the synchronous part; the setTimeout callback is snapToSideTimeout
snapToSide(S, w, zone) ==
  LET S1 == [S EXCEPT !.win[w].snapZone = zone]
      S2 == occupySnapZone(S1, zone, w)
  IN  [S2 EXCEPT !.win[w].width = "calc(50% - 24px)",
                 !.win[w].height = "calc(100vh - 32px)",
                 !.win[w].maxWidth = "none",
                 !.win[w].transition = SNAP_TRANSITION,
                 !.win[w].settleTimers = S.win[w].settleTimers + 1,
                 !.win[w].left = IF zone = LEFT THEN Px(LEFT_SNAP_POSITION)
                                 ELSE HalfPlus(RIGHT_SNAP_OFFSET),
                 !.win[w].top = TOP_POSITION,
                 !.win[w].transform = "none"]

constrainToViewport_NoLowerClamp(S, w, x, y) ==
  LET rect == getBoundingClientRect(S, w)
      maxX == S.innerWidth - rect.width
      maxY == S.innerHeight - rect.height
  IN  [x |-> Min(x, maxX), y |-> Min(y, maxY), maxX |-> maxX, maxY |-> maxY]

constrainToViewport(S, w, x, y) ==
  LET rect == getBoundingClientRect(S, w)
      maxX == S.innerWidth - rect.width
      maxY == S.innerHeight - rect.height
  IN  [x |-> Max(0, Min(x, maxX)), y |-> Max(0, Min(y, maxY)),
       maxX |-> maxX, maxY |-> maxY]

updatePosition(S, w, x, y) ==
  [S EXCEPT !.win[w].left = Px(x), !.win[w].top = y, !.win[w].transform = "none"]

updateSnapIndicators_NoFreeCheck(S, w, x, maxX) ==
  IF isMobile(S)
  THEN [S EXCEPT !.win[w].leftOpacity = "0", !.win[w].rightOpacity = "0"]
  ELSE [S EXCEPT !.win[w].leftOpacity = IF x <= SNAP_THRESHOLD THEN "1" ELSE "0",
                 !.win[w].rightOpacity = IF x >= maxX - SNAP_THRESHOLD THEN "1" ELSE "0"]

updateSnapIndicators(S, w, x, maxX) ==
  IF isMobile(S)
  THEN [S EXCEPT !.win[w].leftOpacity = "0", !.win[w].rightOpacity = "0"]
  ELSE LET isNearLeft == x <= SNAP_THRESHOLD
           isNearRight == x >= maxX - SNAP_THRESHOLD
       IN  [S EXCEPT
              !.win[w].leftOpacity =
                 IF isNearLeft /\ ~isSnapZoneOccupied(S, LEFT) THEN "1" ELSE "0",
              !.win[w].rightOpacity =
                 IF isNearRight /\ ~isSnapZoneOccupied(S, RIGHT) THEN "1" ELSE "0"]

hideSnapIndicators(S, w) ==
  [S EXCEPT !.win[w].leftOpacity = "0", !.win[w].rightOpacity = "0"]

resetDragState(S, w) == [S EXCEPT !.win[w].isDragging = FALSE]

attemptSnap_NoOccupiedCheck(S, w) ==
  IF isMobile(S)
  THEN S
  ELSE LET rect == getBoundingClientRect(S, w)
           isNearLeft == rect.left <= SNAP_THRESHOLD
           isNearRight == rect.left >= S.innerWidth - rect.width - SNAP_THRESHOLD
           S1 == clearSnapZone(S, w)
       IN  IF isNearLeft THEN snapToSide(S1, w, LEFT)
           ELSE IF isNearRight THEN snapToSide(S1, w, RIGHT)
                ELSE S1

attemptSnap_RightFirst(S, w) ==
  IF isMobile(S)
  THEN S
  ELSE LET rect == getBoundingClientRect(S, w)
           isNearLeft == rect.left <= SNAP_THRESHOLD
           isNearRight == rect.left >= S.innerWidth - rect.width - SNAP_THRESHOLD
           S1 == clearSnapZone(S, w)
       IN  IF isNearRight /\ ~isSnapZoneOccupied(S1, RIGHT)
           THEN snapToSide(S1, w, RIGHT)
           ELSE IF isNearLeft /\ ~isSnapZoneOccupied(S1, LEFT)
                THEN snapToSide(S1, w, LEFT)
                ELSE S1

attemptSnap(S, w) ==
  IF isMobile(S)
  THEN S
  ELSE LET rect == getBoundingClientRect(S, w)
           isNearLeft == rect.left <= SNAP_THRESHOLD
           isNearRight == rect.left >= S.innerWidth - rect.width - SNAP_THRESHOLD
           S1 == clearSnapZone(S, w)
       IN  IF isNearLeft /\ ~isSnapZoneOccupied(S1, LEFT)
           THEN snapToSide(S1, w, LEFT)
           ELSE IF isNearRight /\ ~isSnapZoneOccupied(S1, RIGHT)
                THEN snapToSide(S1, w, RIGHT)
                ELSE S1

handleMouseDown_KeepSlot(S, w, cx, cy) ==
  LET S1 == [S EXCEPT !.win[w].isDragging = TRUE]
      rect == getBoundingClientRect(S1, w)
  IN  [S1 EXCEPT !.win[w].dragStartX = cx - rect.left,
                 !.win[w].dragStartY = cy - rect.top]

handleMouseDown(S, w, cx, cy) ==
  LET S1 == clearSnapZone([S EXCEPT !.win[w].isDragging = TRUE], w)
      S2 == IF S1.win[w].snapZone # NoZone
            THEN [S1 EXCEPT !.win[w].width = "fit-content",
                            !.win[w].height = "auto",
                            !.win[w].maxWidth = "none"]
            ELSE S1
      rect == getBoundingClientRect(S2, w)
  IN  [S2 EXCEPT !.win[w].dragStartX = cx - rect.left,
                 !.win[w].dragStartY = cy - rect.top]

handleMouseMove(S, w, cx, cy) ==
  IF ~S.win[w].isDragging
  THEN S
  ELSE LET newX == cx - S.win[w].dragStartX
           newY == cy - S.win[w].dragStartY
           c == constrainToViewport(S, w, newX, newY)
       IN  updateSnapIndicators(updatePosition(S, w, c.x, c.y), w, c.x, c.maxX)

handleMouseUp(S, w) ==
  IF ~S.win[w].isDragging
  THEN S
  ELSE resetDragState(hideSnapIndicators(attemptSnap(S, w), w), w)

handleWindowResize_ReleaseOnMobile(S, w) ==
  LET S1 == IF isMobile(S) THEN clearSnapZone(S, w) ELSE S
  IN  [S1 EXCEPT !.win[w].zoneDisplay = IF isMobile(S) THEN "none" ELSE "block"]

handleWindowResize(S, w) ==
  [S EXCEPT !.win[w].zoneDisplay = IF isMobile(S) THEN "none" ELSE "block"]

center_KeepSlot(S, w) ==
  [S EXCEPT !.win[w].left = Percent(50),
            !.win[w].top = TOP_POSITION,
            !.win[w].transform = "translateX(-50%)",
            !.win[w].width = "100%",
            !.win[w].height = "auto",
            !.win[w].maxWidth = "1024px",
            !.win[w].transition = ""]

\* center(immediate): every call passes a truthy argument (true, or the click
\* event the green light's listener receives), so that the branch that
\* starts a settle timer never runs; the transition is set to 'none' and
\* then to the empty string
center(S, w) ==
  LET S1 == clearSnapZone(S, w)
  IN  [S1 EXCEPT !.win[w].left = Percent(50),
                 !.win[w].top = TOP_POSITION,
                 !.win[w].transform = "translateX(-50%)",
                 !.win[w].width = "100%",
                 !.win[w].height = "auto",
                 !.win[w].maxWidth = "1024px",
                 !.win[w].transition = ""]

\* the callback snapToSide schedules after ANIMATION_DURATION
snapToSideTimeout(S, w) ==
  [S EXCEPT !.win[w].transition = "",
            !.win[w].settleTimers = S.win[w].settleTimers - 1]

\* remove(): the synchronous part; the setTimeout callback is removeTimeout
remove(S, w) ==
  LET S1 == clearSnapZone(S, w)
  IN  [S1 EXCEPT !.win[w].transition = FADE_TRANSITION,
                 !.win[w].opacity = "0",
                 !.win[w].fadeTimers = S.win[w].fadeTimers + 1]

(***************************************************************************)
(* WindowManager: registry, restart button, templates                      *)
(***************************************************************************)
NoReposition == [n |-> 0]

\* new Window(element, manager, options): constructor and init(), for an
\* element that has a header.  windowStartX and windowStartY are not kept:
\* handleMouseDown writes them and nothing reads them.
NewWindow(S, templateId) ==
  [snapZone |-> NoZone, isDragging |-> FALSE, dragStartX |-> 0, dragStartY |-> 0,
   left |-> Px(0), top |-> 0, transform |-> "none",
   width |-> "", height |-> "", maxWidth |-> "", opacity |-> "",
   leftOpacity |-> "0", rightOpacity |-> "0",
   zoneDisplay |-> IF isMobile(S) THEN "none" ELSE "block",
   inDocument |-> TRUE, natural |-> contentSize(templateId), zIndex |-> 0, fadeTimers |-> 0,
   links |-> FALSE, reposition |-> NoReposition,
   transition |-> "", settleTimers |-> 0]

createWindow_Prepend(S, templateId) ==
  LET w == Len(S.win) + 1
      S1 == [S EXCEPT !.win = Append(S.win, NewWindow(S, templateId)),
                      !.windows = <<w>> \o S.windows]
  IN  [setZIndex(S1, w, S.nextZIndex) EXCEPT !.nextZIndex = S.nextZIndex + 1]

createWindow(S, templateId) ==
  LET w == Len(S.win) + 1
      S1 == [S EXCEPT !.win = Append(S.win, NewWindow(S, templateId)),
                      !.windows = Append(S.windows, w)]
  IN  [setZIndex(S1, w, S.nextZIndex) EXCEPT !.nextZIndex = S.nextZIndex + 1]

indexOf(seq, x) ==
  IF \E i \in 1..Len(seq) : seq[i] = x
  THEN CHOOSE i \in 1..Len(seq) : seq[i] = x /\ \A j \in 1..(i - 1) : seq[j] # x
  ELSE 0

splice(seq, i) ==
  [j \in 1..(Len(seq) - 1) |-> IF j < i THEN seq[j] ELSE seq[j + 1]]

showRestartButton(S) ==
  [S EXCEPT !.restartButton = TRUE, !.showCalls = S.showCalls + 1]

removeWindow_NoGuard(S, w) ==
  LET index == indexOf(S.windows, w)
      S1 == [S EXCEPT !.windows =
               splice(S.windows, IF index > 0 THEN index ELSE Len(S.windows))]
  IN  IF Len(S1.windows) = 0 THEN showRestartButton(S1) ELSE S1

removeWindow(S, w) ==
  LET index == indexOf(S.windows, w)
      S1 == IF index > 0 THEN [S EXCEPT !.windows = splice(S.windows, index)] ELSE S
  IN  IF Len(S1.windows) = 0 THEN showRestartButton(S1) ELSE S1

removeTimeout_NoEvict(S, w) ==
  [S EXCEPT !.win[w].inDocument = FALSE,
            !.win[w].fadeTimers = S.win[w].fadeTimers - 1]

\* the callback remove() schedules after FADE_DURATION
removeTimeout(S, w) ==
  LET S1 == [S EXCEPT !.win[w].inDocument = FALSE,
                      !.win[w].fadeTimers = S.win[w].fadeTimers - 1]
  IN  removeWindow(S1, w)

loadWindowFromTemplate_CountBeforeLookup(S, templateId, centered) ==
  LET S0 == [S EXCEPT !.nextZIndex = S.nextZIndex + 1]
  IN  IF templateId \notin S.templates
      THEN [S0 EXCEPT !.loadResult = Returned(NoWindow)]
      ELSE LET S1 == createWindow(S, templateId)
               w == Len(S1.win)
               S2 == IF centered THEN center(S1, w) ELSE S1
           IN  [S2 EXCEPT !.loadResult = Returned(w)]

\* returns the state with loadResult the new window, or NoWindow for null
loadWindowFromTemplate(S, templateId, centered) ==
  IF templateId \notin S.templates
  THEN [S EXCEPT !.loadResult = Returned(NoWindow)]
  ELSE LET S1 == createWindow(S, templateId)
           w == Len(S1.win)
           S2 == IF centered THEN center(S1, w) ELSE S1
       IN  [S2 EXCEPT !.loadResult = Returned(w)]

setupWindowLinks(S, w) == [S EXCEPT !.win[w].links = TRUE]

restart(S) ==
  LET S1 == [S EXCEPT !.restartButton = FALSE]
      S2 == loadWindowFromTemplate(S1, MainTemplate, TRUE)
  IN  IF S2.loadResult[1] # NoWindow THEN setupWindowLinks(S2, S2.loadResult[1]) ELSE S2

\* applyCorrectPosition of positionWindowRelativeToLink, with what the closure captured
applyCorrectPosition(S, w) ==
  LET cap == S.win[w].reposition
      windowRect == getBoundingClientRect(S, w)
      windowWidth == windowRect.width
      windowHeight == windowRect.height
      left0 == Max(0, cap.linkRect.left - windowWidth + LINK_PADDING)
      left1 ==
        IF cap.leftWindow # NoWindow
        THEN LET r == getBoundingClientRect(S, cap.leftWindow)
             IN  IF left0 < r.left + r.width /\ left0 + windowWidth > r.left
                 THEN r.left + r.width + OFFSET_AMOUNT ELSE left0
        ELSE left0
      left2 ==
        IF cap.rightWindow # NoWindow
        THEN LET r == getBoundingClientRect(S, cap.rightWindow)
                 offsetLeft == r.left - windowWidth - OFFSET_AMOUNT
             IN  IF left1 < r.left + r.width /\ left1 + windowWidth > r.left
                 THEN IF offsetLeft >= 0 THEN offsetLeft
                      ELSE r.left + r.width + OFFSET_AMOUNT
                 ELSE left1
        ELSE left1
      maxLeft == Max(0, cap.screenWidth - windowWidth)
      newLeft == Min(left2, maxLeft)
      top0 == cap.linkRect.bottom + LINK_GAP
      topPosition == cap.linkRect.top - windowHeight - LINK_GAP
      top1 == IF top0 + windowHeight > cap.screenHeight
              THEN IF topPosition >= SCREEN_PADDING THEN topPosition ELSE SCREEN_PADDING
              ELSE top0
      top2 == Max(SCREEN_PADDING, top1)
      maxTop == cap.screenHeight - windowHeight - SCREEN_PADDING
      newTop == Min(top2, maxTop)
  IN  [S EXCEPT !.win[w].left = Px(newLeft), !.win[w].top = newTop,
                !.win[w].transform = "none"]

positionWindowRelativeToLink_NoMobile(S, w, linkRect, focusable) ==
  IF ~isSnapZoneOccupied(S, LEFT) THEN snapToSide(S, w, LEFT)
  ELSE IF ~isSnapZoneOccupied(S, RIGHT) THEN snapToSide(S, w, RIGHT)
  ELSE [S EXCEPT
          !.win[w].left = Px(Max(0, linkRect.left - INITIAL_LINK_WIDTH + LINK_PADDING)),
          !.win[w].top = linkRect.bottom + LINK_GAP,
          !.win[w].transform = "none",
          !.win[w].reposition =
             [n |-> 2, linkRect |-> linkRect, screenWidth |-> S.innerWidth,
              screenHeight |-> S.innerHeight, leftWindow |-> S.snapZones[LEFT],
              rightWindow |-> S.snapZones[RIGHT]]]

positionWindowRelativeToLink_RightFirst(S, w, linkRect, focusable) ==
  IF isMobile(S)
  THEN LET S1 == bringToFront(center(S, w), w)
       IN  IF focusable THEN bringToFront(S1, w) ELSE S1
  ELSE IF ~isSnapZoneOccupied(S, RIGHT) THEN snapToSide(S, w, RIGHT)
  ELSE IF ~isSnapZoneOccupied(S, LEFT) THEN snapToSide(S, w, LEFT)
  ELSE [S EXCEPT
          !.win[w].left = Px(Max(0, linkRect.left - INITIAL_LINK_WIDTH + LINK_PADDING)),
          !.win[w].top = linkRect.bottom + LINK_GAP,
          !.win[w].transform = "none",
          !.win[w].reposition =
             [n |-> 2, linkRect |-> linkRect, screenWidth |-> S.innerWidth,
              screenHeight |-> S.innerHeight, leftWindow |-> S.snapZones[LEFT],
              rightWindow |-> S.snapZones[RIGHT]]]

positionWindowRelativeToLink(S, w, linkRect, focusable) ==
  IF isMobile(S)
  THEN LET S1 == bringToFront(center(S, w), w)
       IN  IF focusable THEN bringToFront(S1, w) ELSE S1
  ELSE IF ~isSnapZoneOccupied(S, LEFT) THEN snapToSide(S, w, LEFT)
  ELSE IF ~isSnapZoneOccupied(S, RIGHT) THEN snapToSide(S, w, RIGHT)
  ELSE [S EXCEPT
          !.win[w].left = Px(Max(0, linkRect.left - INITIAL_LINK_WIDTH + LINK_PADDING)),
          !.win[w].top = linkRect.bottom + LINK_GAP,
          !.win[w].transform = "none",
          !.win[w].reposition =
             [n |-> 2, linkRect |-> linkRect, screenWidth |-> S.innerWidth,
              screenHeight |-> S.innerHeight, leftWindow |-> S.snapZones[LEFT],
              rightWindow |-> S.snapZones[RIGHT]]]

\* the click handlers setupWindowLinks installs on the links of a main window
openFromLink(S, templateId, linkRect, focusable) ==
  LET S1 == loadWindowFromTemplate(S, templateId, FALSE)
  IN  IF S1.loadResult[1] # NoWindow
      THEN positionWindowRelativeToLink(S1, S1.loadResult[1], linkRect, focusable)
      ELSE S1

\* window.openDebugWindow: returns the state with loadResult the panel, or NoWindow
openDebugWindow(S) ==
  LET S1 == loadWindowFromTemplate(S, DebugTemplate, FALSE)
  IN  IF S1.loadResult[1] # NoWindow THEN center(S1, S1.loadResult[1]) ELSE S1

\* the keydown listener of the template store, for the backtick key.  The
\* timer that renders the panel's diagrams and formulas changes no state of
\* the window manager.
keydownBacktick(S) ==
  LET inst == S.templateStoreInstance
  IN  IF inst # NoWindow /\ S.win[inst].inDocument
      THEN bringToFront(S, inst)
      ELSE LET S1 == openDebugWindow(S)
           IN  [S1 EXCEPT !.templateStoreInstance = S1.loadResult[1]]

postTemplate(url) ==
  CASE url = "posts/reinforcement-learning-scoundrel.html" -> RLPostTemplate
    [] url = "posts/drone-development.html" -> DronePostTemplate
    [] OTHER -> ""

(***************************************************************************)
(* The state after the DOMContentLoaded handler: the manager constructed   *)
(* and the main window loaded from its template.                           *)
(***************************************************************************)
Constructed(T, vw, vh) ==
  [windows |-> <<>>, snapZones |-> [z \in SnapZone |-> NoWindow],
   nextZIndex |-> Z_INDEX_BASE, win |-> <<>>, innerWidth |-> vw, innerHeight |-> vh,
   templates |-> T, restartButton |-> FALSE, showCalls |-> 0, loadResult |-> NoLoad,
   templateStoreInstance |-> NoWindow]

Loaded(T, vw, vh) ==
    LET S1 == loadWindowFromTemplate(Constructed(T, vw, vh), MainTemplate, TRUE)
        S2 == IF S1.loadResult[1] # NoWindow THEN setupWindowLinks(S1, S1.loadResult[1]) ELSE S1
    IN  /\ windows = S2.windows
        /\ snapZones = S2.snapZones
        /\ nextZIndex = S2.nextZIndex
        /\ win = S2.win
        /\ innerWidth = S2.innerWidth
        /\ innerHeight = S2.innerHeight
        /\ templates = S2.templates
        /\ restartButton = S2.restartButton
        /\ showCalls = S2.showCalls
        /\ loadResult = S2.loadResult
        /\ templateStoreInstance = S2.templateStoreInstance

Init ==
  /\ \E T \in TemplateSets, vw \in ViewportWidths, vh \in ViewportHeights :
       Loaded(T, vw, vh)
  /\ HeatIdle
  /\ StoreIdle

Constructed_Windows == 1..Len(win)
InDocument == {w \in Constructed_Windows : win[w].inDocument}
RECURSIVE pendingFadeTimers(_)
pendingFadeTimers(w) ==
  IF w = 0 THEN 0 ELSE win[w].fadeTimers + pendingFadeTimers(w - 1)
CanBump(k) == nextZIndex + k <= Z_INDEX_BASE + MaxZ
\* a load that finds its template constructs a window; bumps: the stack values it takes
CanSpawn(templateId, bumps) ==
  templateId \in templates => Len(win) < MaxWindows /\ CanBump(bumps)

\* a click is delivered after the mouseup of its press, and that mouseup has
\* run the mouseup listener of every window: no window is dragging at a click
NoDrag == \A w \in Constructed_Windows : ~win[w].isDragging

\* the pointer is inside the viewport and over the element of window w
PointerOver(w, cx, cy) ==
  LET rect == getBoundingClientRect(Cur, w)
  IN  /\ 0 <= cx /\ cx < innerWidth /\ 0 <= cy /\ cy < innerHeight
      /\ rect.left <= cx /\ cx <= rect.left + rect.width
      /\ rect.top <= cy /\ cy <= rect.top + rect.height

\* a mousedown at (cx, cy) is delivered to w: of the windows under the pointer
\* w is the one painted on top
PointerOn(w, cx, cy) ==
  /\ PointerOver(w, cx, cy)
  /\ \A v \in InDocument : PointerOver(v, cx, cy) => win[v].zIndex <= win[w].zIndex

RECURSIVE mouseMoveListeners(_, _, _, _)
mouseMoveListeners(S, w, cx, cy) ==
  IF w > Len(S.win) THEN S
  ELSE mouseMoveListeners(handleMouseMove(S, w, cx, cy), w + 1, cx, cy)

RECURSIVE mouseUpListeners(_, _)
mouseUpListeners(S, w) ==
  IF w > Len(S.win) THEN S ELSE mouseUpListeners(handleMouseUp(S, w), w + 1)

RECURSIVE resizeListeners(_, _)
resizeListeners(S, w) ==
  IF w > Len(S.win) THEN S ELSE resizeListeners(handleWindowResize(S, w), w + 1)

(***************************************************************************)
(* Events                                                                  *)
(***************************************************************************)
\* mousedown on the header: the header's listener, then the element's
MouseDownHeader(w, cx, cy) ==
  /\ w \in InDocument
  /\ PointerOn(w, cx, cy)
  /\ CanBump(1)
  /\ Commit(bringToFront(handleMouseDown(Cur, w, cx, cy), w))

\* mousedown on the content of the window, or a focus event inside it
Focus(w) ==
  /\ w \in InDocument
  /\ CanBump(1)
  /\ Commit(bringToFront(Cur, w))

MouseMove(cx, cy) ==
  Commit(mouseMoveListeners(Cur, 1, cx, cy))

MouseUp ==
  Commit(mouseUpListeners(Cur, 1))

Resize(vw, vh) ==
  /\ <<vw, vh>> # <<innerWidth, innerHeight>>
  /\ Commit(resizeListeners([Cur EXCEPT !.innerWidth = vw, !.innerHeight = vh], 1))

\* click on the red or the yellow light
CloseClick(w) ==
  /\ w \in InDocument
  /\ NoDrag
  /\ pendingFadeTimers(Len(win)) < MaxFadeTimers
  /\ Commit(remove(Cur, w))

\* click on the green light
CenterClick(w) ==
  /\ w \in InDocument
  /\ NoDrag
  /\ Commit(center(Cur, w))

FadeTimeout(w) ==
  /\ w \in Constructed_Windows
  /\ win[w].fadeTimers > 0
  /\ Commit(removeTimeout(Cur, w))

LinkClick(m, templateId, linkRect, focusable) ==
  /\ m \in InDocument
  /\ win[m].links
  /\ NoDrag
  /\ CanSpawn(templateId, IF isMobile(Cur) THEN (IF focusable THEN 3 ELSE 2) ELSE 1)
  /\ Commit(openFromLink(Cur, templateId, linkRect, focusable))

\* The activity handler also calls initializeContributionGraphs on the new
\* window's element; that call changes only the subtree of that element and
\* is modelled by InitializeContributionGraphs of the contribution graph.
ActivityLinkClick(m, linkRect, focusable) ==
  LinkClick(m, ActivityTemplate, linkRect, focusable)

ProjectsLinkClick(m, linkRect, focusable) ==
  LinkClick(m, ProjectsTemplate, linkRect, focusable)

PostLinkClick(m, url, linkRect, focusable) ==
  IF postTemplate(url) = ""
  THEN /\ m \in InDocument
       /\ win[m].links
       /\ NoDrag
       /\ Commit(Cur)
  ELSE LinkClick(m, postTemplate(url), linkRect, focusable)

\* requestAnimationFrame callback, then the 100 ms timer, of a link-placed window
RepositionCallback(w) ==
  /\ w \in Constructed_Windows
  /\ win[w].reposition.n > 0
  /\ LET S1 == applyCorrectPosition(Cur, w)
         n == win[w].reposition.n
     IN  Commit([S1 EXCEPT !.win[w].reposition =
                    IF n = 1 THEN NoReposition
                    ELSE [win[w].reposition EXCEPT !.n = n - 1]])

\* the template store's panel is in the document
DebugPanelOpen ==
  templateStoreInstance # NoWindow /\ win[templateStoreInstance].inDocument

BacktickKey ==
  /\ IF DebugPanelOpen
     THEN CanBump(1)
     ELSE CanSpawn(DebugTemplate, 1)
  /\ Commit(keydownBacktick(Cur))

RestartClick ==
  /\ restartButton
  /\ NoDrag
  /\ CanSpawn(MainTemplate, 1)
  /\ Commit(restart(Cur))

Next ==
  \/ BacktickKey
  \/ \E w \in 1..MaxWindows, p \in Pointers : MouseDownHeader(w, p.x, p.y)
  \/ \E w \in 1..MaxWindows : Focus(w)
  \/ \E p \in Pointers : MouseMove(p.x, p.y)
  \/ MouseUp
  \/ \E vw \in ViewportWidths, vh \in ViewportHeights : Resize(vw, vh)
  \/ \E w \in 1..MaxWindows : CloseClick(w)
  \/ \E w \in 1..MaxWindows : CenterClick(w)
  \/ \E w \in 1..MaxWindows : FadeTimeout(w)
  \/ \E m \in 1..MaxWindows, r \in LinkRects, f \in BOOLEAN : ActivityLinkClick(m, r, f)
  \/ \E m \in 1..MaxWindows, r \in LinkRects, f \in BOOLEAN : ProjectsLinkClick(m, r, f)
  \/ \E m \in 1..MaxWindows, u \in PostUrls, r \in LinkRects, f \in BOOLEAN :
       PostLinkClick(m, u, r, f)
  \/ \E w \in 1..MaxWindows : RepositionCallback(w)
  \/ RestartClick

Spec == Init /\ [][Next]_vars

\* a timer that setTimeout has started fires: the browser's event loop runs
\* every pending timer callback
TimersFire == \A w \in 1..MaxWindows : WF_vars(FadeTimeout(w))

\* the events of the page while at most LiveMaxWindows windows have been
\* constructed; with two windows no link-opened window finds both slots owned,
\* so that no reposition callback is pending; the viewport keeps the size it
\* had when the page was loaded
LiveNext ==
  \/ \E w \in 1..MaxWindows, p \in Pointers : MouseDownHeader(w, p.x, p.y)
  \/ \E w \in 1..MaxWindows : Focus(w)
  \/ \E p \in Pointers : MouseMove(p.x, p.y)
  \/ MouseUp
  \/ \E w \in 1..MaxWindows : CloseClick(w)
  \/ \E w \in 1..MaxWindows : CenterClick(w)
  \/ \E w \in 1..MaxWindows : FadeTimeout(w)
  \/ /\ Len(win) < LiveMaxWindows
     /\ \E m \in 1..MaxWindows, r \in LinkRects, f \in BOOLEAN : ActivityLinkClick(m, r, f)
  \/ Len(win) < LiveMaxWindows /\ RestartClick
  \/ (~DebugPanelOpen => Len(win) < LiveMaxWindows) /\ BacktickKey

LiveSpec == Init /\ [][LiveNext]_vars /\ TimersFire

\* the page loaded in a viewport exactly MOBILE_BREAKPOINT wide
BreakpointInit ==
  /\ \E T \in TemplateSets, vh \in ViewportHeights : Loaded(T, MOBILE_BREAKPOINT, vh)
  /\ HeatIdle
  /\ StoreIdle

BreakpointSpec == BreakpointInit /\ [][LiveNext]_vars

(***************************************************************************)
(* The window manager observed with the transition style of its elements: *)
(* the events of the drag, the lights and a link, each with the guard it   *)
(* has above, and the timers of snapToSide and remove.                     *)
(***************************************************************************)
RECURSIVE pendingSettleTimers(_, _)
pendingSettleTimers(S, w) ==
  IF w = 0 THEN 0 ELSE S.win[w].settleTimers + pendingSettleTimers(S, w - 1)

\* a handler's result is committed while at most MaxSettleTimers are pending
CanSettle(S) == pendingSettleTimers(S, Len(S.win)) <= MaxSettleTimers

TransitionMouseDownHeader(w, cx, cy) ==
  /\ w \in InDocument
  /\ PointerOn(w, cx, cy)
  /\ CanBump(1)
  /\ CommitTransitions(bringToFront(handleMouseDown(Cur, w, cx, cy), w))

TransitionMouseMove(cx, cy) ==
  CommitTransitions(mouseMoveListeners(Cur, 1, cx, cy))

TransitionMouseUp ==
  /\ CanSettle(mouseUpListeners(Cur, 1))
  /\ CommitTransitions(mouseUpListeners(Cur, 1))

TransitionCloseClick(w) ==
  /\ w \in InDocument
  /\ NoDrag
  /\ pendingFadeTimers(Len(win)) < MaxFadeTimers
  /\ CommitTransitions(remove(Cur, w))

TransitionCenterClick(w) ==
  /\ w \in InDocument
  /\ NoDrag
  /\ CommitTransitions(center(Cur, w))

TransitionFadeTimeout(w) ==
  /\ w \in Constructed_Windows
  /\ win[w].fadeTimers > 0
  /\ CommitTransitions(removeTimeout(Cur, w))

TransitionLinkClick(m, linkRect, focusable) ==
  /\ Len(win) < LiveMaxWindows
  /\ m \in InDocument
  /\ win[m].links
  /\ NoDrag
  /\ CanSpawn(ActivityTemplate, IF isMobile(Cur) THEN (IF focusable THEN 3 ELSE 2) ELSE 1)
  /\ CanSettle(openFromLink(Cur, ActivityTemplate, linkRect, focusable))
  /\ CommitTransitions(openFromLink(Cur, ActivityTemplate, linkRect, focusable))

\* the timer a snapToSide has started on w fires
SettleTimeout(w) ==
  /\ w \in Constructed_Windows
  /\ win[w].settleTimers > 0
  /\ CommitTransitions(snapToSideTimeout(Cur, w))

TransitionNext ==
  \/ \E w \in 1..MaxWindows : SettleTimeout(w)
  \/ \E w \in 1..MaxWindows, p \in Pointers : TransitionMouseDownHeader(w, p.x, p.y)
  \/ \E p \in Pointers : TransitionMouseMove(p.x, p.y)
  \/ TransitionMouseUp
  \/ \E w \in 1..MaxWindows : TransitionCloseClick(w)
  \/ \E w \in 1..MaxWindows : TransitionCenterClick(w)
  \/ \E w \in 1..MaxWindows : TransitionFadeTimeout(w)
  \/ \E m \in 1..MaxWindows, r \in LinkRects, f \in BOOLEAN : TransitionLinkClick(m, r, f)

TransitionSpec == Init /\ [][TransitionNext]_vars

(***************************************************************************)
(* The template store: the keydown listener with its try/catch, and        *)
(* initializeTemplateStore, which the listener starts 50 ms after it has   *)
(* opened a panel.  A run of a function body is a record: the calls made   *)
(* to functions outside the store, what console.error has logged, what the *)
(* promise callbacks log later, and whether an exception is propagating.   *)
(* A statement reached while an exception propagates does not run.         *)
(***************************************************************************)
Running == [calls |-> <<>>, logged |-> <<>>, later |-> <<>>, thrown |-> FALSE]

\* a call of an outside function that throws or returns
invoke(R, lib, fn, block, throws) ==
  IF R.thrown THEN R
  ELSE [R EXCEPT !.calls = Append(R.calls, [lib |-> lib, fn |-> fn, block |-> block]),
                 !.thrown = throws]

\* catch (e) { console.error(message, e) } after the try block that ran as R
catch(R, message) ==
  IF R.thrown
  THEN [R EXCEPT !.thrown = FALSE, !.logged = Append(R.logged, message)]
  ELSE R

\* the keys the listener is given, by name: Backquote is event.key of the
\* backtick key
Keys == {"Backquote", "a"}
\* which call of the listener throws, if any; it throws on entry
KeydownFaults == {"none", "openDebugWindow", "bringToFront"}

\* the keydown listener: the state of the page after it, and its run
keydownHandler(S, key, fault) ==
  IF key # "Backquote"
  THEN [state |-> S, run |-> Running, defaultPrevented |-> FALSE, timer |-> FALSE]
  ELSE LET inst == S.templateStoreInstance
           open == inst # NoWindow /\ S.win[inst].inDocument
           body == IF open
                   THEN invoke(Running, "windowManager", "bringToFront", 0,
                               fault = "bringToFront")
                   ELSE invoke(Running, "window", "openDebugWindow", 0,
                               fault = "openDebugWindow")
           S1 == IF body.thrown THEN S ELSE keydownBacktick(S)
       IN  [state |-> S1,
            run |-> catch(body, "Error opening debug window:"),
            defaultPrevented |-> TRUE,
            timer |-> ~open /\ ~body.thrown /\ S1.templateStoreInstance # NoWindow]

\* the code blocks of .debug-content in document order, and the libraries
\* the page has loaded, with what each call of them does
Contents == {<<>>, <<"code">>, <<"mermaid", "code", "code">>}
RunOutcomes == {"resolves", "rejects", "throws"}
Environments ==
  {env \in [content : BOOLEAN, blocks : Contents,
            mermaid : BOOLEAN, throwsInitialize : BOOLEAN, run : RunOutcomes,
            hljs : BOOLEAN, throwsHighlight : SUBSET (1..3),
            renderMathInElement : BOOLEAN, throwsRender : BOOLEAN] :
     /\ env.throwsHighlight \subseteq 1..Len(env.blocks)
     /\ ~env.mermaid => (~env.throwsInitialize /\ env.run = "resolves")
     /\ ~env.hljs => env.throwsHighlight = {}
     /\ ~env.renderMathInElement => ~env.throwsRender}

\* the try block around mermaid.initialize and mermaid.run, with its catch;
\* a rejected promise is logged by the callback given to .catch
renderDiagrams(R, env) ==
  LET R1 == invoke(R, "mermaid", "initialize", 0, env.throwsInitialize)
      R2 == invoke(R1, "mermaid", "run", 0, env.run = "throws")
      R3 == IF ~R2.thrown /\ env.run = "rejects"
            THEN [R2 EXCEPT !.later = Append(R2.later, "Mermaid render error:")]
            ELSE R2
  IN  IF R.thrown THEN R ELSE catch(R3, "Mermaid initialization error:")

highlightBlock_NoCatch(R, env, block) ==
  invoke(R, "hljs", "highlightElement", block, block \in env.throwsHighlight)

\* the callback of forEach over the pre code blocks
highlightBlock(R, env, block) ==
  IF R.thrown THEN R
  ELSE catch(invoke(R, "hljs", "highlightElement", block, block \in env.throwsHighlight),
             "Highlight.js error:")

\* content.querySelectorAll('pre code').forEach, from block on
RECURSIVE highlightBlocks(_, _, _, _)
highlightBlocks(R, env, preCode, block) ==
  IF block > Len(env.blocks) THEN R
  ELSE highlightBlocks(IF block \in preCode THEN highlightBlock(R, env, block) ELSE R,
                       env, preCode, block + 1)

renderMath(R, env) ==
  IF R.thrown THEN R
  ELSE catch(invoke(R, "katex", "renderMathInElement", 0, env.throwsRender), "KaTeX error:")

\* initializeTemplateStore: its run; the log ends with what the promise
\* callbacks log after the function has returned
initializeTemplateStore(S, env) ==
  IF S.templateStoreInstance = NoWindow \/ ~env.content
  THEN Running
  ELSE LET mermaidBlocks == {b \in 1..Len(env.blocks) : env.blocks[b] = "mermaid"}
           \* the mermaid blocks are replaced by div.mermaid when mermaid is loaded
           preCode == IF env.mermaid THEN (1..Len(env.blocks)) \ mermaidBlocks
                      ELSE 1..Len(env.blocks)
           R1 == IF env.mermaid /\ mermaidBlocks # {}
                 THEN renderDiagrams(Running, env) ELSE Running
           R2 == IF env.hljs THEN highlightBlocks(R1, env, preCode, 1) ELSE R1
           R3 == IF env.renderMathInElement THEN renderMath(R2, env) ELSE R2
       IN  [R3 EXCEPT !.logged = R3.logged \o R3.later, !.later = <<>>]

\* a key is pressed.  The panel is removed FADE_DURATION (600 ms) after its
\* close, so the 50 ms timer of a panel has fired before the next is opened.
Keydown(key, fault) ==
  LET h == keydownHandler(Cur, key, fault)
  IN  /\ key = "Backquote" =>
           IF DebugPanelOpen THEN CanBump(1) ELSE CanSpawn(DebugTemplate, 1)
      /\ h.timer => store.timers < MaxInitTimers
      /\ CommitWindows(h.state)
      /\ store' = [timers |-> store.timers + (IF h.timer THEN 1 ELSE 0),
                   call |-> [op |-> "keydown", arg |-> <<key, fault>>, result |-> h.run]]
      /\ UNCHANGED heatVars

\* the timer the keydown listener has started fires
InitializeTemplateStoreTimeout(env) ==
  /\ store.timers > 0
  /\ store' = [timers |-> store.timers - 1,
               call |-> [op |-> "initializeTemplateStore", arg |-> env,
                         result |-> initializeTemplateStore(Cur, env)]]
  /\ UNCHANGED <<winVars, heatVars>>

StoreNext ==
  \/ \E key \in Keys, fault \in KeydownFaults : Keydown(key, fault)
  \/ \E env \in Environments : InitializeTemplateStoreTimeout(env)
  \/ \E w \in 1..MaxWindows : CloseClick(w)
  \/ \E w \in 1..MaxWindows : FadeTimeout(w)

StoreSpec == Init /\ [][StoreNext]_vars

(***************************************************************************)
(* The contribution graph as a state machine: the functions applied to     *)
(* years, counts and data drawn from small sets.                           *)
(***************************************************************************)
\* every weekday starts one of these years; 1900 is no leap year, 2000 is one
HeatYears == {1900, 2000, 2028} \cup 2019..2026

\* contributions.js not loaded, or data for 2023 and 2024
DataSets ==
  {<<>>, [y \in {2023, 2024} |-> [i \in 1..daysInYearOfData(y) |-> (i * 7) % 17]]}

\* TIME_PERIODS as configured, or one period that holds every day of 2024, or
\* two periods in 2028, a leap year that starts on a Saturday
PeriodSets ==
  {TIME_PERIODS,
   << [label |-> "2024", start |-> Date(2024, 0, 1), end |-> Date(2024, 11, 31),
       color |-> "#FF9900"] >>,
   << [label |-> "Early 2028", start |-> Date(2028, 0, 1), end |-> Date(2028, 2, 14),
       color |-> "#FF9900"],
      [label |-> "Late 2028", start |-> Date(2028, 2, 20), end |-> Date(2028, 11, 31),
       color |-> "#2759CB"] >>}

HeatInit ==
  /\ \E T \in TemplateSets, vw \in ViewportWidths, vh \in ViewportHeights : Loaded(T, vw, vh)
  /\ contributionData \in DataSets
  /\ timePeriods \in PeriodSets
  /\ graphsContainer \in {NoContainer, EmptyContainer}
  /\ heat = NoCall
  /\ StoreIdle

\* a call of a function of the graph, with what it returned.  The functions
\* keep no state from one call to the next: a behaviour makes one call.
Call(op, arg, result) ==
  /\ heat = NoCall
  /\ heat' = [op |-> op, arg |-> arg, result |-> result]
  /\ UNCHANGED <<winVars, storeVars, contributionData, timePeriods, graphsContainer>>

GetContributionLevel(count) ==
  Call("getContributionLevel", count, getContributionLevel(count))

GetYearContributionData(year) ==
  Call("getYearContributionData", year, getYearContributionData(year, contributionData))

FindConnectedRegions(year) ==
  Call("findConnectedRegions", year,
       findConnectedRegions(year, getYearContributionData(year, contributionData),
                            timePeriods))

\* renderYearRow into an empty container: the result is the row
RenderYearRow(year) ==
  Call("renderYearRow", year,
       renderYearRow(<<>>, year, getYearContributionData(year, contributionData),
                     timePeriods)[1])

InitializeContributionGraphs ==
  /\ heat.op \in {"none", "initializeContributionGraphs"}
  /\ graphsContainer.observers < MaxRenders
  /\ graphsContainer' =
       initializeContributionGraphs(graphsContainer, contributionData, timePeriods)
  /\ heat' = [op |-> "initializeContributionGraphs", arg |-> 0, result |-> 0]
  /\ UNCHANGED <<winVars, storeVars, contributionData, timePeriods>>

HeatNext ==
  \/ \E count \in 0..MaxCount : GetContributionLevel(count)
  \/ \E year \in HeatYears : GetYearContributionData(year)
  \/ \E year \in HeatYears : FindConnectedRegions(year)
  \/ \E year \in HeatYears : RenderYearRow(year)
  \/ InitializeContributionGraphs

HeatSpec == HeatInit /\ [][HeatNext]_vars

(***************************************************************************)
(* Properties                                                              *)
(***************************************************************************)
Registry == {windows[i] : i \in 1..Len(windows)}
MoveStep == \E p \in Pointers : MouseMove(p.x, p.y)
Dragging == {w \in Constructed_Windows : win[w].isDragging}

\* the state in which the mouseup listener of window w runs: the listeners of
\* the windows constructed before w have run
RECURSIVE mouseUpListenersBefore(_, _, _)
mouseUpListenersBefore(S, v, w) ==
  IF v >= w THEN S ELSE mouseUpListenersBefore(handleMouseUp(S, v), v + 1, w)

nearLeft(S, w) == getBoundingClientRect(S, w).left <= SNAP_THRESHOLD
nearRight(S, w) ==
  LET rect == getBoundingClientRect(S, w)
  IN  rect.left >= S.innerWidth - rect.width - SNAP_THRESHOLD

\* C1: the slot table and the windows' slot fields are inverse relations:
\* snapZones[z] is w exactly when win[w].snapZone is z.
C1_SlotsInverse ==
  /\ \A z \in SnapZone : snapZones[z] \in {NoWindow} \cup Constructed_Windows
  /\ \A z \in SnapZone, w \in Constructed_Windows :
       (snapZones[z] = w) <=> (win[w].snapZone = z)

C1_Witness ==
  /\ snapZones[LEFT] # NoWindow
  /\ snapZones[RIGHT] # NoWindow
  /\ \E w \in Constructed_Windows : win[w].inDocument /\ win[w].snapZone = NoZone

\* C2: a slot is claimed only while it is free, and an owner loses its slot
\* only by its own release: no step replaces one owner by another, and a step
\* that takes a slot from its owner leaves the owner's slot field empty.
C2_ClaimOnlyFree ==
  [][\A z \in SnapZone :
       LET old == snapZones[z]
           new == snapZones'[z]
       IN  /\ (new # NoWindow /\ new # old) => old = NoWindow
           /\ (old # NoWindow /\ new # old) => win'[old].snapZone = NoZone]_vars

C2_Witness ==
  /\ snapZones[LEFT] = 1
  /\ snapZones[RIGHT] = 2
  /\ ~win[1].isDragging /\ ~win[2].isDragging

\* C3: the owner of each slot is a window that is still in the registry.
C3_OwnerInRegistry ==
  \A z \in SnapZone : snapZones[z] # NoWindow => snapZones[z] \in Registry

\* C4: showRestartButton runs exactly once in a step that empties a
\* non-empty registry, and in no other step.
C4_NotifiedOncePerEmptying ==
  [][showCalls' = IF Len(windows) > 0 /\ Len(windows') = 0 THEN 1 ELSE 0]_vars

\* C5 (as stated): after pointer-up the position of the window satisfies
\* 0 <= x <= viewportWidth - windowWidth and 0 <= y <= viewportHeight - windowHeight.
InViewport(S, w) ==
  LET rect == getBoundingClientRect(S, w)
  IN  /\ 0 <= rect.left /\ rect.left <= S.innerWidth - rect.width
      /\ 0 <= rect.top /\ rect.top <= S.innerHeight - rect.height

C5_ReleasedInViewport ==
  [][MouseUp => \A w \in Dragging : InViewport(Cur', w)]_vars

\* C5 (amended): every pointer-move of a dragging window commits a position
\* with 0 <= x <= max(0, viewportWidth - windowWidth) and
\* 0 <= y <= max(0, viewportHeight - windowHeight); pointer-up either leaves
\* the position as it was or snaps the window to a slot's rectangle, which
\* satisfies the same bounds.
Clamped(S, w) ==
  LET rect == getBoundingClientRect(S, w)
  IN  /\ 0 <= rect.left /\ rect.left <= Max(0, S.innerWidth - rect.width)
      /\ 0 <= rect.top /\ rect.top <= Max(0, S.innerHeight - rect.height)

C5_ClampedDrag ==
  [][/\ MoveStep => \A w \in Dragging : Clamped(Cur', w)
     /\ MouseUp => \A w \in Dragging :
          \/ win'[w].left = win[w].left /\ win'[w].top = win[w].top
          \/ win'[w].snapZone # NoZone /\ Clamped(Cur', w)]_vars

C5_Witness ==
  \E w \in InDocument :
    /\ ~win[w].isDragging
    /\ win[w].snapZone = NoZone
    /\ win[w].left.unit = "px"
    /\ win[w].top > 0
    /\ win[w].top = innerHeight - getBoundingClientRect(Cur, w).height

\* C6: the stack counter never decreases; a stack value handed out is at
\* least the counter before the step, hence greater than every value handed
\* out before; the window that received it has the strictly greatest value;
\* no two windows of the registry share a value.
C6_StackMonotonic ==
  [][/\ nextZIndex' >= nextZIndex
     /\ \A w \in 1..Len(win') :
          /\ win'[w].zIndex < nextZIndex'
          /\ (w > Len(win) \/ win'[w].zIndex # win[w].zIndex) =>
               /\ win'[w].zIndex >= nextZIndex
               /\ \A v \in 1..Len(win') : v # w => win'[v].zIndex < win'[w].zIndex
     /\ \A i, j \in 1..Len(windows') :
          i # j => win'[windows'[i]].zIndex # win'[windows'[j]].zIndex]_vars

C6_Witness ==
  /\ Len(windows) >= 2
  /\ \E w \in Registry :
       /\ w < Len(win)
       /\ \A v \in Registry : v # w => win[v].zIndex < win[w].zIndex

\* C7: on pointer-up of a dragging window with snapping enabled: near the
\* left edge with LEFT free it becomes SNAPPED(LEFT) and owns LEFT; otherwise,
\* near the right edge with RIGHT free, it becomes SNAPPED(RIGHT) and owns RIGHT.
C7_SnapOnRelease ==
  [][MouseUp => \A w \in Dragging :
       LET M == mouseUpListenersBefore(Cur, 1, w)
           left == nearLeft(M, w) /\ ~isSnapZoneOccupied(M, LEFT)
           right == nearRight(M, w) /\ ~isSnapZoneOccupied(M, RIGHT)
       IN  ~isMobile(M) =>
             /\ left => win'[w].snapZone = LEFT /\ snapZones'[LEFT] = w
             /\ (~left /\ right) => win'[w].snapZone = RIGHT /\ snapZones'[RIGHT] = w]_vars

C7_Witness ==
  /\ Len(win) = 1
  /\ win[1].snapZone = RIGHT
  /\ snapZones[RIGHT] = 1
  /\ ~win[1].isDragging

\* C8: a window released near the left edge while LEFT is owned by another
\* window, and not near the right edge with RIGHT free, does not snap: it owns
\* no slot, the owner of LEFT keeps it, its listener leaves the slot table as
\* it was, and its position is the one it had before the release.
C8_NoSnapWhenOccupied ==
  [][MouseUp => \A w \in Dragging :
       LET M == mouseUpListenersBefore(Cur, 1, w)
           A == M.snapZones[LEFT]
       IN  (/\ nearLeft(M, w)
            /\ A # NoWindow /\ A # w
            /\ ~(nearRight(M, w) /\ ~isSnapZoneOccupied(M, RIGHT))) =>
             /\ win'[w].snapZone = NoZone
             /\ snapZones'[LEFT] = A /\ win'[A].snapZone = LEFT
             /\ handleMouseUp(M, w).snapZones = M.snapZones
             /\ win'[w].left = win[w].left /\ win'[w].top = win[w].top]_vars

C8_Witness ==
  \E w \in InDocument :
    /\ ~isMobile(Cur)
    /\ ~win[w].isDragging
    /\ win[w].snapZone = NoZone
    /\ win[w].left = Px(0) /\ win[w].dragStartX > 0
    /\ win[w].opacity = ""
    /\ nearLeft(Cur, w) /\ ~nearRight(Cur, w)
    /\ snapZones[LEFT] \in InDocument \ {w}
    /\ win[snapZones[LEFT]].opacity = ""

\* C9: after a pointer-move of a dragging window, releasing it snaps it into
\* slot z exactly when its indicator for z is visible.
indicatorVisible(S, w, z) ==
  IF z = LEFT THEN S.win[w].leftOpacity = "1" ELSE S.win[w].rightOpacity = "1"

C9_PreviewIsCommit ==
  [][MoveStep => \A w \in Dragging : \A z \in SnapZone :
       (handleMouseUp(Cur', w).win[w].snapZone = z) <=> indicatorVisible(Cur', w, z)]_vars

\* C10: a load whose template is missing returns null and changes neither the
\* registry, the slot table, the stack counter nor any window.
C10_MissingTemplateNoEffect ==
  [][loadResult' = Returned(NoWindow) =>
       /\ windows' = windows
       /\ snapZones' = snapZones
       /\ nextZIndex' = nextZIndex
       /\ win' = win]_vars

C10_Witness == loadResult = Returned(NoWindow) /\ Len(windows) >= 2

\* the inline style center() leaves on the element of w
Centered(S, w) ==
  /\ S.win[w].left = Percent(50)
  /\ S.win[w].top = TOP_POSITION
  /\ S.win[w].transform = "translateX(-50%)"
  /\ S.win[w].width = "100%"
  /\ S.win[w].maxWidth = "1024px"

\* C11: a load that finds its template appends exactly one new window at the
\* end of the registry, gives it the counter's value, which is greater than
\* the stack value of every existing window, advances the counter by one,
\* leaves the slots and the existing windows as they were and, unless
\* centered is false, leaves the new window centered and without a slot.
C11_SpawnEffect ==
  \A t \in templates, c \in BOOLEAN :
    LET S1 == loadWindowFromTemplate(Cur, t, c)
        w == Len(win) + 1
    IN  /\ S1.loadResult = Returned(w)
        /\ S1.windows = Append(windows, w)
        /\ Len(S1.win) = w
        /\ \A v \in 1..Len(win) : S1.win[v] = win[v] /\ win[v].zIndex < S1.win[w].zIndex
        /\ S1.win[w].zIndex = nextZIndex
        /\ S1.nextZIndex = nextZIndex + 1
        /\ S1.snapZones = snapZones
        /\ S1.win[w].inDocument
        /\ S1.win[w].snapZone = NoZone
        /\ c => Centered(S1, w)

\* a restart has loaded a new main window while an evicted one exists
C11_Witness ==
  /\ Len(win) >= 2
  /\ loadResult = Returned(Len(win))
  /\ windows = <<Len(win)>>
  /\ Centered(Cur, Len(win))
  /\ win[Len(win)].zIndex = nextZIndex - 1

\* C12: once remove() has run on a window of the registry (its fade timer is
\* pending), the window eventually is out of the document and out of the
\* registry, whatever events occur in between.
C12_CloseCompletes ==
  \A w \in 1..MaxWindows :
    (w \in Registry /\ win[w].fadeTimers > 0)
      ~> (w \in Constructed_Windows /\ ~win[w].inDocument /\ w \notin Registry)

\* a closed window is gone although it was pressed and closed again during its fade
C12_Witness ==
  \E w \in Constructed_Windows :
    /\ ~win[w].inDocument
    /\ w \notin Registry
    /\ win[w].fadeTimers > 0
    /\ win[w].isDragging

\* C13: snapping is disabled exactly below the breakpoint: while the viewport
\* is narrower than MOBILE_BREAKPOINT no step puts a window into a slot, and
\* at MOBILE_BREAKPOINT or wider a release near a free edge snaps.
C13_SnapDisabledExactlyBelow ==
  [][/\ innerWidth < MOBILE_BREAKPOINT =>
          \A z \in SnapZone : snapZones'[z] \in {snapZones[z], NoWindow}
     /\ (MouseUp /\ innerWidth >= MOBILE_BREAKPOINT) => \A w \in Dragging :
          LET M == mouseUpListenersBefore(Cur, 1, w)
              left == nearLeft(M, w) /\ ~isSnapZoneOccupied(M, LEFT)
              right == nearRight(M, w) /\ ~isSnapZoneOccupied(M, RIGHT)
          IN  /\ left => win'[w].snapZone = LEFT
              /\ (~left /\ right) => win'[w].snapZone = RIGHT]_vars

\* C14: while the viewport is narrower than the breakpoint, a handler that
\* constructs a window (page load, restart, a link of the main window, the
\* backtick key) leaves the new window centered and owning no slot, whoever
\* owns LEFT and RIGHT.
C14_MobileSpawnCentered ==
  /\ innerWidth < MOBILE_BREAKPOINT =>
       \A w \in Constructed_Windows :
         Centered(Cur, w) /\ win[w].snapZone = NoZone /\ \A z \in SnapZone : snapZones[z] # w
  /\ [][(innerWidth < MOBILE_BREAKPOINT /\ Len(win') > Len(win)) =>
          LET w == Len(win')
          IN  /\ Centered(Cur', w)
              /\ win'[w].snapZone = NoZone
              /\ \A z \in SnapZone : snapZones'[z] # w
              /\ snapZones' = snapZones]_vars

\* a link has opened a window in a narrow viewport while LEFT is owned
C14_Witness ==
  /\ innerWidth < MOBILE_BREAKPOINT
  /\ snapZones[LEFT] \in Registry
  /\ loadResult = Returned(Len(win))
  /\ templateStoreInstance # Len(win)
  /\ Len(windows) >= 3
  /\ Centered(Cur, Len(win))

\* C15: after a backtick press with the debug template present, the template
\* store's panel is in the registry with the greatest stack value and no
\* removal of it is pending (it stays open until its close affordance is
\* activated after the press); a press while the panel is open constructs no
\* window, and a panel is constructed only while the previous one is out of
\* the registry.
C15_BacktickOpensPanel ==
  [][(BacktickKey /\ DebugTemplate \in templates) =>
       LET d == templateStoreInstance'
       IN  /\ d # NoWindow
           /\ \E i \in 1..Len(windows') : windows'[i] = d
           /\ \A i \in 1..Len(windows') :
                windows'[i] # d => win'[windows'[i]].zIndex < win'[d].zIndex
           /\ win'[d].inDocument
           /\ win'[d].fadeTimers = 0
           /\ DebugPanelOpen => Len(win') = Len(win)
           /\ Len(win') > Len(win) => templateStoreInstance \notin Registry]_vars

\* the cells of a rendered row that stand for a day of the year (the other
\* positions of the 7 x 53 grid, before 1 January and after 31 December, are
\* titled 'No data') and have level 0
zeroLevelDayCells(row) ==
  {j \in 1..Len(row.grid) : row.grid[j].title # <<>> /\ row.grid[j].level = 0}

\* C16: the row rendered for a year that is absent from the data has exactly
\* daysInYear(year) zero-level day cells, whatever weekday the year starts on.
C16_MissingYearGrid ==
  (heat.op = "renderYearRow" /\ heat.arg \notin DOMAIN contributionData) =>
    Cardinality(zeroLevelDayCells(heat.result)) = daysInYearOfData(heat.arg)

\* C17: the number of days used for a year is 366 if the year is divisible by
\* 4 and not by 100, or divisible by 400, else 365, which is the length of the
\* year in the calendar; missing-year data and the region borders use the
\* same number.
C17_GregorianDays ==
  /\ \A year \in HeatYears :
       /\ daysInYearOfBorder(year) = daysInYearOfData(year)
       /\ daysInYearOfData(year) =
            IF (year % 4 = 0 /\ year % 100 # 0) \/ year % 400 = 0 THEN 366 ELSE 365
  /\ (heat.op = "getYearContributionData" /\ heat.arg \notin DOMAIN contributionData) =>
       /\ Len(heat.result) = daysBefore(heat.arg + 1) - daysBefore(heat.arg)
       /\ heat.arg \in {2024, 2000} => Len(heat.result) = 366
       /\ heat.arg \in {2023, 1900} => Len(heat.result) = 365

C17_Witness ==
  /\ heat.op = "getYearContributionData"
  /\ heat.arg = 1900
  /\ 1900 \notin DOMAIN contributionData
  /\ Len(heat.result) = 365

\* C18: getContributionLevel maps 0 to 0, 1..3 to 1, 4..6 to 2, 7..12 to 3 and
\* 13 or more to 4, and never gives a smaller count a greater level.
C18_LevelThresholds ==
  heat.op = "getContributionLevel" =>
    LET count == heat.arg
        level == heat.result
    IN  /\ level \in 0..4
        /\ (count = 0) = (level = 0)
        /\ (count \in 1..3) = (level = 1)
        /\ (count \in 4..6) = (level = 2)
        /\ (count \in 7..12) = (level = 3)
        /\ (count >= 13) = (level = 4)
        /\ \A smaller \in 0..count : getContributionLevel(smaller) <= level

C18_Witness ==
  heat.op = "getContributionLevel" /\ heat.arg = 13 /\ heat.result = 4

\* C19: however many times initializeContributionGraphs has run on a
\* container, with the same data, the container holds what one run on the
\* empty container builds: the same children, year rows, cells, levels and
\* border segments, none twice.
C19_RenderIdempotent ==
  graphsContainer.observers >= 1 =>
    graphsContainer.children =
      initializeContributionGraphs(EmptyContainer, contributionData, timePeriods).children

C19_Witness ==
  /\ graphsContainer.observers = 2
  /\ Len(graphsContainer.children) = 2
  /\ Len(graphsContainer.children[2].children) = Len(YEARS) + 1
  /\ 2024 \in DOMAIN contributionData

\* every day of 2024 belongs to one and the same period
OnePeriod2024 ==
  \E i \in 1..Len(timePeriods) :
    \A d \in 0..365 : getTimePeriodForDate(timePeriods, Date(2024, 0, d + 1)) = i

\* the edges a rendered row has a border segment on
segmentEdges(row) ==
  {<<row.backgroundLayer[j].week, row.backgroundLayer[j].dayOfWeek,
     row.backgroundLayer[j].edge>> : j \in 1..Len(row.backgroundLayer)}

\* the edges of the outer boundary of the 7 x 53 grid
OuterEdges ==
  {<<week, 0, "top">> : week \in 0..52} \cup {<<week, 6, "bottom">> : week \in 0..52}
    \cup {<<0, dayOfWeek, "left">> : dayOfWeek \in 0..6}
    \cup {<<52, dayOfWeek, "right">> : dayOfWeek \in 0..6}

OneRegion2024 ==
  (heat.op = "findConnectedRegions" /\ heat.arg = 2024) =>
    /\ Len(heat.result) = 1
    /\ Len(heat.result[1]) = 366
    /\ {heat.result[1][i] : i \in 1..366} = 0..365

\* C20 (as stated): with every day of 2024 in one period there is exactly one
\* region, of all 366 days, and border segments only on the outer boundary
\* of the 7 x 53 grid.
C20_OuterBoundaryOnly ==
  OnePeriod2024 =>
    /\ OneRegion2024
    /\ (heat.op = "renderYearRow" /\ heat.arg = 2024) =>
         segmentEdges(heat.result) \subseteq OuterEdges

\* the position of the grid holds a day of 2024 (1 January 2024 is a Monday)
IsDay2024(week, dayOfWeek) ==
  /\ week \in 0..52 /\ dayOfWeek \in 0..6
  /\ week * 7 + dayOfWeek - 1 \in 0..365

\* the edges of day cells whose other side is no day of 2024
OutlineEdges2024 ==
  {e \in (0..52) \X (0..6) \X {"top", "right", "bottom", "left"} :
     /\ IsDay2024(e[1], e[2])
     /\ ~IsDay2024(e[1] + (CASE e[3] = "right" -> 1 [] e[3] = "left" -> -1 [] OTHER -> 0),
                   e[2] + (CASE e[3] = "bottom" -> 1 [] e[3] = "top" -> -1 [] OTHER -> 0))}

\* C20 (amended): with every day of 2024 in one period there is exactly one
\* region, of all 366 days, and the border segments are on exactly the edges
\* of day cells whose neighbouring position is outside the grid or holds no
\* day of the year; none is between two days of the year.
C20_RegionOutline ==
  OnePeriod2024 =>
    /\ OneRegion2024
    /\ (heat.op = "renderYearRow" /\ heat.arg = 2024) =>
         /\ segmentEdges(heat.result) = OutlineEdges2024
         /\ Len(heat.result.backgroundLayer) = Cardinality(OutlineEdges2024)

\* the row of 2024 has a segment between the first day and the padding above it
C20_Witness ==
  /\ OnePeriod2024
  /\ heat.op = "renderYearRow" /\ heat.arg = 2024
  /\ <<0, 1, "top">> \in segmentEdges(heat.result)

\* the period of a day of the year, and the position getGridPosition gives it
periodOfDay(year, d) == getTimePeriodForDate(timePeriods, Date(year, 0, d + 1))

layoutPosition(year, d) == getGridPosition(d, getDay(Date(year, 0, 1)))

\* two days are 4-adjacent in the week/weekday layout
Adjacent(year, d, e) ==
  LET p == layoutPosition(year, d)
      q == layoutPosition(year, e)
  IN  \/ p.week = q.week /\ (p.dayOfWeek = q.dayOfWeek + 1 \/ q.dayOfWeek = p.dayOfWeek + 1)
      \/ p.dayOfWeek = q.dayOfWeek /\ (p.week = q.week + 1 \/ q.week = p.week + 1)

\* the days of R that a path of adjacent days of R joins to the frontier
RECURSIVE JoinedTo(_, _, _, _)
JoinedTo(year, R, seen, frontier) ==
  LET more == {d \in R \ seen : \E e \in frontier : Adjacent(year, d, e)}
  IN  IF more = {} THEN seen ELSE JoinedTo(year, R, seen \cup more, more)

daysOf(region) == {region[i] : i \in 1..Len(region)}

\* C21: the regions findConnectedRegions returns are pairwise disjoint, their
\* union is the set of days of the year that fall in a period, every region
\* is connected by 4-adjacency and lies in one period, and no two 4-adjacent
\* days with the same period label are in different regions.
C21_RegionsPartition ==
  heat.op = "findConnectedRegions" =>
    LET year == heat.arg
        regions == heat.result
        days == 0..(Len(getYearContributionData(year, contributionData)) - 1)
        regionOf(d) == {k \in 1..Len(regions) : d \in daysOf(regions[k])}
    IN  /\ \A k \in 1..Len(regions) :
             /\ regions[k] # <<>>
             /\ Cardinality(daysOf(regions[k])) = Len(regions[k])
             /\ \A l \in 1..Len(regions) : k # l => daysOf(regions[k]) \cap daysOf(regions[l]) = {}
             /\ \A d \in daysOf(regions[k]) : periodOfDay(year, d) = periodOfDay(year, regions[k][1])
             /\ JoinedTo(year, daysOf(regions[k]), {regions[k][1]}, {regions[k][1]})
                  = daysOf(regions[k])
        /\ UNION {daysOf(regions[k]) : k \in 1..Len(regions)}
             = {d \in days : periodOfDay(year, d) # NoPeriod}
        /\ \A d \in days : \A e \in {d + 1, d + 7} \cap days :
             (/\ Adjacent(year, d, e)
              /\ periodOfDay(year, d) # NoPeriod /\ periodOfDay(year, e) # NoPeriod
              /\ timePeriods[periodOfDay(year, d)].label = timePeriods[periodOfDay(year, e)].label)
               => regionOf(d) = regionOf(e)

\* the edges of the cells of a region whose position across the edge, inside
\* or outside the grid, is not a cell of the region
openEdges(year, region) ==
  LET startDayOfWeek == getDay(Date(year, 0, 1))
      across(d, edge) ==
        LET p == layoutPosition(year, d)
            week == p.week + (CASE edge = "right" -> 1 [] edge = "left" -> -1 [] OTHER -> 0)
            dayOfWeek ==
              p.dayOfWeek + (CASE edge = "bottom" -> 1 [] edge = "top" -> -1 [] OTHER -> 0)
        IN  IF dayOfWeek \in 0..6 /\ week >= 0
            THEN {week * 7 + dayOfWeek - startDayOfWeek} ELSE {}
  IN  {<<layoutPosition(year, d).week, layoutPosition(year, d).dayOfWeek, edge>> :
         <<d, edge>> \in {c \in daysOf(region) \X {"top", "right", "bottom", "left"} :
                            across(c[1], c[2]) \cap daysOf(region) = {}}}

\* C22: for every region of a rendered year and every cell of it, the
\* background layer has a border segment on an edge exactly when the position
\* across that edge is not a cell of the same region, one segment per such
\* edge, in the colour of the region's period.
C22_BorderIffOpenEdge ==
  heat.op = "renderYearRow" =>
    LET year == heat.arg
        layer == heat.result.backgroundLayer
        regions == findConnectedRegions(year, getYearContributionData(year, contributionData),
                                        timePeriods)
    IN  /\ segmentEdges(heat.result) = UNION {openEdges(year, regions[k]) : k \in 1..Len(regions)}
        /\ \A k \in 1..Len(regions) :
             LET color == timePeriods[periodOfDay(year, regions[k][1])].color
             IN  \A e \in openEdges(year, regions[k]) :
                   Cardinality({j \in 1..Len(layer) :
                                  <<layer[j].week, layer[j].dayOfWeek, layer[j].edge>> = e}) = 1
                   /\ \E j \in 1..Len(layer) :
                        layer[j] = [week |-> e[1], dayOfWeek |-> e[2], edge |-> e[3],
                                    color |-> color]

\* a rendered year with the regions of two periods, whose borders face each other
C22_Witness ==
  /\ heat.op = "renderYearRow"
  /\ heat.arg = 2024
  /\ timePeriods = TIME_PERIODS
  /\ \E i, j \in 1..Len(heat.result.backgroundLayer) :
       /\ heat.result.backgroundLayer[i].color = "#FF9900"
       /\ heat.result.backgroundLayer[j].color = "#2759CB"
       /\ heat.result.backgroundLayer[i].edge = "right"
       /\ heat.result.backgroundLayer[j].edge = "left"
       /\ heat.result.backgroundLayer[j].week = heat.result.backgroundLayer[i].week + 1
       /\ heat.result.backgroundLayer[j].dayOfWeek = heat.result.backgroundLayer[i].dayOfWeek

\* the sequence without its entries equal to w, the others in their order
Without(seq, w) == SelectSeq(seq, LAMBDA v : v # w)

\* C23: the registry holds exactly the windows constructed and not yet
\* evicted, once each, in construction order; a step leaves it as it was,
\* appends the one window it constructs, or takes out the one window it
\* evicts and keeps the order of the others; evicting a window that is not in
\* the registry leaves the registry as it was.
C23_RegistryIsLiveWindows ==
  /\ Registry = InDocument
  /\ \A i, j \in 1..Len(windows) : i < j => windows[i] < windows[j]
  /\ [][/\ \A i, j \in 1..Len(windows') : i < j => windows'[i] < windows'[j]
        /\ {windows'[i] : i \in 1..Len(windows')} = {w \in 1..Len(win') : win'[w].inDocument}
        /\ \/ windows' = windows /\ Len(win') = Len(win)
           \/ Len(win') = Len(win) + 1 /\ windows' = Append(windows, Len(win'))
           \/ \E w \in Registry :
                /\ FadeTimeout(w)
                /\ windows' = Without(windows, w)
                /\ Len(windows') = Len(windows) - 1
        /\ \A w \in Constructed_Windows :
             /\ removeWindow(Cur, w).windows = Without(windows, w)
             /\ w \notin Registry =>
                  /\ removeWindow(Cur, w).windows = windows
                  /\ FadeTimeout(w) => windows' = windows]_vars

\* the second window of three has been evicted and a second close of it is pending
C23_Witness ==
  /\ Len(win) = 3
  /\ windows = <<1, 3>>
  /\ ~win[2].inDocument
  /\ win[2].fadeTimers = 1

\* the integrations of a run of initializeTemplateStore that fail
failing(env) ==
  (IF env.throwsInitialize \/ env.run # "resolves" THEN {<<"mermaid", 0>>} ELSE {})
    \cup {<<"hljs", b>> : b \in env.throwsHighlight}
    \cup (IF env.throwsRender THEN {<<"katex", 0>>} ELSE {})

\* the calls of a run to integrations that do not fail, in their order
callsOutside(run, F) == SelectSeq(run.calls, LAMBDA c : <<c.lib, c.block>> \notin F)

\* C24: whichever of diagram rendering, the highlighting of single code
\* blocks and math rendering throw, initializeTemplateStore makes the same
\* calls to the others as when nothing throws, logs each failure once, and
\* no exception leaves it; no exception leaves the keydown listener.
C24_FailuresIsolated ==
  /\ store.call.op = "keydown" =>
       /\ ~store.call.result.thrown
       /\ Len(store.call.result.logged) =
            IF \E i \in 1..Len(store.call.result.calls) :
                 store.call.result.calls[i].fn = store.call.arg[2]
            THEN 1 ELSE 0
  /\ store.call.op = "initializeTemplateStore" =>
       LET env == store.call.arg
           run == store.call.result
           sound == [env EXCEPT !.throwsInitialize = FALSE, !.run = "resolves",
                                !.throwsHighlight = {}, !.throwsRender = FALSE]
           clean == initializeTemplateStore(Cur, sound)
           F == failing(env)
       IN  /\ ~run.thrown
           /\ callsOutside(run, F) = callsOutside(clean, F)
           /\ \A i \in 1..Len(clean.calls) :
                \E j \in 1..Len(run.calls) :
                  run.calls[j].lib = clean.calls[i].lib /\ run.calls[j].block = clean.calls[i].block
           /\ Len(run.logged)
                = Cardinality({f \in F : \E i \in 1..Len(clean.calls) :
                                 <<clean.calls[i].lib, clean.calls[i].block>> = f})

\* diagram rendering and the highlighting of the first block have thrown, and
\* the second block and the math are still rendered
C24_Witness ==
  /\ store.call.op = "initializeTemplateStore"
  /\ store.call.arg.throwsInitialize
  /\ store.call.arg.throwsHighlight = {2}
  /\ Len(store.call.result.logged) = 2
  /\ \E i \in 1..Len(store.call.result.calls) : store.call.result.calls[i].lib = "katex"
  /\ \E i \in 1..Len(store.call.result.calls) :
       store.call.result.calls[i].lib = "hljs" /\ store.call.result.calls[i].block = 3

\* C25: a pointer-down on the header of a window that owns a slot frees the
\* slot and gives the window its content-driven size (width fit-content,
\* height auto, no max width) before the pointer offset is taken; a window
\* that owns no slot keeps its size.
C25_PressFreesAndResizes ==
  [][\A w \in 1..MaxWindows, p \in Pointers :
       MouseDownHeader(w, p.x, p.y) =>
         IF win[w].snapZone # NoZone
         THEN /\ snapZones'[win[w].snapZone] = NoWindow
              /\ win'[w].snapZone = NoZone
              /\ win'[w].width = "fit-content"
              /\ win'[w].height = "auto"
              /\ win'[w].maxWidth = "none"
         ELSE /\ win'[w].width = win[w].width
              /\ win'[w].height = win[w].height
              /\ win'[w].maxWidth = win[w].maxWidth]_vars

\* C26: the click listener of the green light frees the slot the window owns,
\* if any, leaves the window centered and without a slot, and changes nothing
\* else: the other slot, the other windows, the registry, the stack counter
\* and the window's stack value, drag flag and presence are as before.
C26_CenterFrame ==
  [][\A w \in 1..MaxWindows :
       CenterClick(w) =>
         /\ win'[w].snapZone = NoZone
         /\ Centered(Cur', w)
         /\ win'[w].height = "auto"
         /\ \A z \in SnapZone :
              snapZones'[z] = IF win[w].snapZone = z THEN NoWindow ELSE snapZones[z]
         /\ Len(win') = Len(win)
         /\ \A v \in Constructed_Windows : v # w => win'[v] = win[v]
         /\ windows' = windows
         /\ nextZIndex' = nextZIndex
         /\ win'[w].zIndex = win[w].zIndex
         /\ win'[w].isDragging = win[w].isDragging
         /\ win'[w].inDocument = win[w].inDocument
         /\ win'[w].fadeTimers = win[w].fadeTimers
         /\ templateStoreInstance' = templateStoreInstance]_vars

\* the window a link had opened in LEFT is centered and owns no slot, while
\* the window opened next still owns RIGHT
C26_Witness ==
  /\ ~isMobile(Cur)
  /\ Len(win) = 3
  /\ windows = <<1, 2, 3>>
  /\ Centered(Cur, 2)
  /\ win[2].snapZone = NoZone
  /\ snapZones = [z \in SnapZone |-> IF z = RIGHT THEN 3 ELSE NoWindow]
  /\ templateStoreInstance = NoWindow

\* what the focus listener of w makes of state S is T: w has the greatest
\* stack value, and nothing else of w, no other window, no slot and not the
\* registry has changed
FocusFrame(S, T, w) ==
  /\ \A v \in 1..Len(T.win) : v # w => T.win[v].zIndex < T.win[w].zIndex
  /\ T.win = [S.win EXCEPT ![w].zIndex = T.win[w].zIndex]
  /\ T.snapZones = S.snapZones
  /\ T.windows = S.windows
  /\ T.templateStoreInstance = S.templateStoreInstance

C28_TimersKeepState ==
  [][\A w \in 1..MaxWindows :
       FadeTimeout(w) =>
         /\ windows' = windows
         /\ snapZones' = snapZones
         /\ nextZIndex' = nextZIndex
         /\ \A v \in Constructed_Windows :
              /\ win'[v].snapZone = win[v].snapZone
              /\ win'[v].isDragging = win[v].isDragging]_vars

\* C29: drags do not nest: at most one window is dragging, and a pointer-down
\* on a header while a window is dragging starts no second drag.
C29_NoNestedDrags ==
  /\ [](Cardinality(Dragging) <= 1)
  /\ [][\A w \in 1..MaxWindows, p \in Pointers :
          (MouseDownHeader(w, p.x, p.y) /\ Dragging # {}) =>
            {v \in 1..Len(win') : win'[v].isDragging} = Dragging]_vars

\* C30: every drag resolves: a window that is dragging eventually is not
\* dragging, whether or not a pointer-up is delivered to the document.
C30_DragResolves ==
  \A w \in 1..MaxWindows :
    (w \in Constructed_Windows /\ win[w].isDragging)
      ~> (w \in Constructed_Windows /\ ~win[w].isDragging)

\* the indicator of w for slot z is painted: opaque and displayed
indicatorShown(S, w, z) == indicatorVisible(S, w, z) /\ S.win[w].zoneDisplay = "block"

\* C31: an indicator of a window is visible only from a pointer-move of the
\* dragging window that left it within the threshold of that edge while the
\* slot was free; a pointer-up hides both indicators of the window; a window
\* that is not dragging shows none; no indicator shows in a mobile viewport.
C31_IndicatorOnlyWhenFree ==
  /\ [](\A w \in Constructed_Windows, z \in SnapZone :
          /\ ~win[w].isDragging => ~indicatorVisible(Cur, w, z)
          /\ innerWidth < MOBILE_BREAKPOINT => ~indicatorShown(Cur, w, z))
  /\ [][\A w \in 1..Len(win'), z \in SnapZone :
          /\ (MoveStep /\ indicatorVisible(Cur', w, z)) =>
               /\ w \in Dragging
               /\ snapZones[z] = NoWindow
               /\ IF z = LEFT THEN nearLeft(Cur', w) ELSE nearRight(Cur', w)
          /\ (indicatorVisible(Cur', w, z)
                /\ (w > Len(win) \/ ~indicatorVisible(Cur, w, z))) => MoveStep
          /\ MouseUp => ~indicatorVisible(Cur', w, z)]_vars

\* a dragging window shows its right indicator only, LEFT being owned
C31_Witness ==
  \E w \in InDocument :
    /\ win[w].isDragging
    /\ win[w].rightOpacity = "1"
    /\ win[w].leftOpacity = "0"
    /\ snapZones[LEFT] \notin {NoWindow, w}
    /\ nearRight(Cur, w)

ResizeStep == \E vw \in ViewportWidths, vh \in ViewportHeights : Resize(vw, vh)

\* the rectangle snapToSide gives a window in slot z, in the viewport of S
slotRect(S, w, z) ==
  [left |-> IF z = LEFT THEN LEFT_SNAP_POSITION
            ELSE (S.innerWidth \div 2) + RIGHT_SNAP_OFFSET,
   top |-> TOP_POSITION,
   width |-> (S.innerWidth \div 2) - WINDOW_WIDTH_INSET,
   height |-> Max(0, S.innerHeight - SNAP_HEIGHT_INSET)]

\* C32: the resize handler changes neither the registry, the slot table nor
\* the stack counter, and it changes no field of any window except the
\* display of its snap indicators: slot, drag state and inline placement
\* are kept.  A window positioned in pixels has the same left and top after
\* the resize; a window that fills its slot in the old viewport fills it in
\* the new one; a centered window is as wide as the new viewport allows and
\* is centered in it.
C32_ResizeFrame ==
  [][ResizeStep =>
       /\ windows' = windows
       /\ snapZones' = snapZones
       /\ nextZIndex' = nextZIndex
       /\ restartButton' = restartButton
       /\ Len(win') = Len(win)
       /\ \A w \in Constructed_Windows :
            /\ win'[w] = [win[w] EXCEPT !.zoneDisplay = win'[w].zoneDisplay]
            /\ (win[w].inDocument /\ win[w].left.unit = "px") =>
                 /\ getBoundingClientRect(Cur', w).left = getBoundingClientRect(Cur, w).left
                 /\ getBoundingClientRect(Cur', w).top = getBoundingClientRect(Cur, w).top
            /\ (/\ win[w].inDocument
                /\ win[w].snapZone # NoZone
                /\ getBoundingClientRect(Cur, w) = slotRect(Cur, w, win[w].snapZone)) =>
                 getBoundingClientRect(Cur', w) = slotRect(Cur', w, win[w].snapZone)
            /\ (win[w].inDocument /\ Centered(Cur, w)) =>
                 LET rect == getBoundingClientRect(Cur', w)
                 IN  /\ Centered(Cur', w)
                     /\ rect.width = Min(innerWidth', MAX_CENTERED_WIDTH)
                     /\ rect.left = (innerWidth' \div 2) - (rect.width \div 2)]_vars

\* a resize to a narrow viewport has run the handlers of a window in a slot,
\* of a centered window and of a window positioned in pixels
C32_Witness ==
  /\ innerWidth < MOBILE_BREAKPOINT
  /\ \E u, v, w \in InDocument :
       /\ win[u].snapZone = RIGHT /\ win[u].zoneDisplay = "none"
       /\ getBoundingClientRect(Cur, u) = slotRect(Cur, u, RIGHT)
       /\ Centered(Cur, v) /\ win[v].zoneDisplay = "none"
       /\ win[w].snapZone = NoZone /\ win[w].left.unit = "px"
       /\ win[w].left.v > 0 /\ win[w].zoneDisplay = "none"

\* a transition has been started on w after the snapToSide whose timer fires
\* next: the timers of a window have the same delay and fire in the order in
\* which they were started, so that with two pending the first is followed by
\* a second snap; and the style is the one remove() has set only if remove()
\* ran after every pending snapToSide, each of which sets its own
Superseded(w) ==
  win[w].settleTimers > 1 \/ win[w].transition = FADE_TRANSITION

\* C33: when the settle timer of a transition fires on a window on which a
\* later transition has been started, the callback leaves the transition
\* style of the window as the later transition has set it.
C33_LastTransitionWins ==
  [][\A w \in 1..MaxWindows :
       (SettleTimeout(w) /\ Superseded(w)) => win'[w].transition = win[w].transition]_vars

\* the cell of a rendered grid at column week and row dayOfWeek: the grid is
\* filled row by row, WEEKS cells to a row
gridCell(grid, week, dayOfWeek) == grid[dayOfWeek * WEEKS + week + 1]

\* the cells of a rendered grid that show day d of the year
cellsOfDay(grid, year, d) ==
  {j \in 1..Len(grid) : grid[j].title # <<>> /\ grid[j].title[2] = Date(year, 0, d + 1)}

\* C34: in the row rendered for a year that starts on weekday s and has n
\* days of data, every day d of 0..n-1 is shown by exactly one cell of the
\* 7 by 53 grid, the cell at column (d + s) div 7 and row (d + s) mod 7, with
\* its count; 1 January is in column 0 at row s; the position of a day maps
\* back to the day; every other cell is a level-0 cell titled 'No data'.
C34_EveryDayOnce ==
  heat.op = "renderYearRow" =>
    LET year == heat.arg
        grid == heat.result.grid
        contributions == getYearContributionData(year, contributionData)
        n == Len(contributions)
        s == getDay(Date(year, 0, 1))
        position(d) == getGridPosition(d, s)
        shown(d) == (position(d).dayOfWeek * WEEKS) + position(d).week + 1
    IN  /\ n \in {365, 366}
        /\ Len(grid) = DAYS_PER_WEEK * WEEKS
        /\ position(0) = [week |-> 0, dayOfWeek |-> s]
        /\ \A d \in 0..(n - 1) :
             /\ position(d).week < WEEKS
             /\ (position(d).week * 7) + position(d).dayOfWeek - s = d
             /\ cellsOfDay(grid, year, d) = {shown(d)}
             /\ gridCell(grid, position(d).week, position(d).dayOfWeek) =
                  [level |-> getContributionLevel(contributions[d + 1]),
                   title |-> <<contributions[d + 1], Date(year, 0, d + 1)>>]
        /\ \A j \in 1..Len(grid) :
             (\A d \in 0..(n - 1) : j # shown(d)) =>
               grid[j] = [level |-> 0, title |-> <<>>]

\* C35: a window that is dragging owns no slot: its slot field is empty and
\* neither slot of the slot table names it.
C35_DraggingOwnsNoSlot ==
  \A w \in Constructed_Windows :
    win[w].isDragging =>
      /\ win[w].snapZone = NoZone
      /\ \A z \in SnapZone : snapZones[z] # w

\* a window pressed while it was in a slot is dragging, still with the width
\* of the slot, next to the window that owns the other slot
C35_Witness ==
  \E w \in InDocument :
    /\ win[w].isDragging
    /\ win[w].width = "calc(50% - 24px)"
    /\ win[w].left = Px(LEFT_SNAP_POSITION)
    /\ snapZones[LEFT] = NoWindow
    /\ snapZones[RIGHT] \in InDocument \ {w}

\* C36: while the restart button is in the document no window is in the
\* registry, and activating the button removes it and leaves exactly one
\* window in the registry, a new main window that is centered and owns no
\* slot.  (showRestartButton removes the button it finds before it adds one,
\* so that the document never holds two.)
C36_RestartOnlyWhenEmpty ==
  restartButton =>
    /\ Len(windows) = 0
    /\ LET S1 == restart(Cur)
           w == Len(win) + 1
       IN  /\ ~S1.restartButton
           /\ S1.windows = <<w>>
           /\ S1.win[w].natural = contentSize(MainTemplate)
           /\ S1.win[w].links
           /\ Centered(S1, w)
           /\ S1.win[w].snapZone = NoZone

\* a click on the activity link, the projects link or a post link of a main window
LinkStep ==
  \E m \in 1..MaxWindows, r \in LinkRects, f \in BOOLEAN :
    \/ ActivityLinkClick(m, r, f)
    \/ ProjectsLinkClick(m, r, f)
    \/ \E u \in PostUrls : PostLinkClick(m, u, r, f)

\* C37: a window that a link opens in a viewport wider than the breakpoint
\* is placed by the slots as they are when the link is clicked: in LEFT if
\* LEFT is free, else in RIGHT if RIGHT is free; else it is positioned in
\* pixels, owns no slot, and both slots keep their owners.  No existing
\* window is changed.
C37_LinkPlacement ==
  [][(LinkStep /\ Len(win') > Len(win) /\ innerWidth > MOBILE_BREAKPOINT) =>
       LET w == Len(win')
           placed(z) ==
             /\ win'[w].snapZone = z
             /\ snapZones' = [snapZones EXCEPT ![z] = w]
             /\ getBoundingClientRect(Cur', w) = slotRect(Cur', w, z)
       IN  /\ w = Len(win) + 1
           /\ windows' = Append(windows, w)
           /\ \A v \in Constructed_Windows : win'[v] = win[v]
           /\ IF snapZones[LEFT] = NoWindow THEN placed(LEFT)
              ELSE IF snapZones[RIGHT] = NoWindow THEN placed(RIGHT)
              ELSE /\ win'[w].snapZone = NoZone
                   /\ win'[w].left.unit = "px"
                   /\ win'[w].width = ""
                   /\ snapZones' = snapZones]_vars

\* a link has just opened a window while both slots were owned: it is
\* positioned in pixels below the link and owns no slot
C37_Witness ==
  /\ innerWidth > MOBILE_BREAKPOINT
  /\ loadResult = Returned(Len(win))
  /\ Len(windows) = 3
  /\ snapZones[LEFT] \in Registry \ {Len(win)}
  /\ snapZones[RIGHT] \in Registry \ {Len(win)}
  /\ win[Len(win)].snapZone = NoZone
  /\ win[Len(win)].left.unit = "px"
  /\ win[Len(win)].reposition.n = 2

\* the slot of w and the inline style that places it
placement(S, w) ==
  [snapZone |-> S.win[w].snapZone, left |-> S.win[w].left, top |-> S.win[w].top,
   transform |-> S.win[w].transform, width |-> S.win[w].width,
   height |-> S.win[w].height, maxWidth |-> S.win[w].maxWidth]

\* a press on the header of w at (cx, cy) and the release that follows it
\* with no pointer-move in between: the mousedown listeners of w, then the
\* mouseup listener of every window
pressAndRelease(S, w, cx, cy) ==
  mouseUpListeners(bringToFront(handleMouseDown(S, w, cx, cy), w), 1)

\* C38: while no window is dragging, a press on the header of a window
\* followed by the release, with no pointer-move in between, leaves the
\* window with the slot and the placement it had (centered, in the same
\* slot, or at the same pixel position) and leaves the slot table as it was
\* before the press, in every viewport.
C38_ClickKeepsPlacement ==
  NoDrag =>
    \A w \in InDocument, p \in Pointers :
      PointerOn(w, p.x, p.y) =>
        LET T == pressAndRelease(Cur, w, p.x, p.y)
        IN  /\ placement(T, w) = placement(Cur, w)
            /\ T.snapZones = snapZones
            /\ ~T.win[w].isDragging

\* C39: while the viewport is at most MOBILE_BREAKPOINT wide, both slots are
\* free and no window has a slot, also after a resize from a wide viewport
\* in which windows were in slots.
C39_NoSnapOnMobile ==
  innerWidth <= MOBILE_BREAKPOINT =>
    /\ \A z \in SnapZone : snapZones[z] = NoWindow
    /\ \A w \in Constructed_Windows : win[w].snapZone = NoZone

====
